---- MODULE Spec2Model ----
(***************************************************************************)
(* HarvestPlanner (src/src/planners/HarvestPlanner.ts): the scheduler that *)
(* assigns creeps to the free standing positions around energy sources.    *)
(* The planner's fields are the variables sourceDatabase, sourceKeys,      *)
(* harvestRequests and assignments; the game world it reads (Game.time,    *)
(* Game.creeps, Game.rooms) is the variables time, creepPos, visibleRooms. *)
(* Every handler of the planner is one action.                             *)
(***************************************************************************)
EXTENDS Integers, Sequences, FiniteSets, TLC

VARIABLES
    time,             \* Game.time
    creepPos,         \* Game.creeps: creep name -> RoomPosition, or Dead
    visibleRooms,     \* the keys of Game.rooms
    sourceDatabase,   \* this.sourceDatabase: sourceId -> SourceData
    sourceKeys,       \* the insertion order of the keys of this.sourceDatabase
    harvestRequests,  \* this.harvestRequests
    assignments,      \* this.assignments: creepName -> sourceId, or NoSource
    adjacentRoomsCache, \* this.adjacentRoomsCache: room name -> adjacent room names
    lastOp,           \* the handler that ran last, with its arguments
    emitted,          \* the harvest.source_assigned signals of the last handler
    passOrder,        \* the requests in the order the last pass considered them
    scouts,           \* the scout.need_room_vision signals of the last handler
    Memory,           \* the global Memory: the creeps with a Memory.creeps entry
                      \* and the planner tables stored by saveData()
    connections,      \* SignalManager.connections of the signal creep.energy_full
    lastEmit          \* after an emit of that signal: the handlers it invoked,
                      \* in order, and whether it returned to its caller

world   == <<time, creepPos, visibleRooms>>
planner == <<sourceDatabase, sourceKeys, harvestRequests, assignments,
             adjacentRoomsCache>>
observe == <<lastOp, emitted, passOrder>>
bus     == <<connections, lastEmit>>
vars    == <<time, creepPos, visibleRooms, sourceDatabase, sourceKeys,
             harvestRequests, assignments, adjacentRoomsCache, lastOp, emitted,
             passOrder, scouts, Memory, connections, lastEmit>>

----------------------------------------------------------------------------
(* Bounds of the model *)

\* the last tick the model runs
MaxTime == 100
\* the last tick of the runs that follow a request until its timeout
MaxTimeT == 211
\* the longest request queue the model lets a submit build
MaxQueue == 2
\* the last tick of the runs with restarts of the script
MaxTimeP == 106
\* the last tick of the runs that follow the steps of run()
MaxTimeL == 201
\* the most connections the model makes to one signal
MaxHandlers == 3
\* the number of connect calls of the signal scenario
MaxConnects == 4
\* the room names of the adjacency scenario: coordinates 0..MaxCoord in each
\* of the four quadrants, and the number of rooms the cache holds
MaxCoord == 2
\* the last tick of the runs with the source at the edge
MaxTimeS == 121
MaxRooms == 3

(* Program constants *)
SCAN_INTERVAL == 20
REQUEST_TIMEOUT == 100
ADJACENT_SCAN_INTERVAL == 100
OCCUPANCY_INTERVAL == 5
CLEANUP_INTERVAL == 10
SAVE_INTERVAL == 5
DEFAULT_PRIORITY == 5
ROOM_MAX == 49

\* Game.time when the constructor runs: two ticks before a tick on which
\* every periodic step of run() fires
StartTime == ADJACENT_SCAN_INTERVAL - 2

----------------------------------------------------------------------------
(* The world: rooms, terrain, sources, creeps *)

RoomName(ew, x, ns, y) == [ew |-> ew, x |-> x, ns |-> ns, y |-> y]
HomeRoom == RoomName("W", 1, "N", 1)
WestRoom == RoomName("W", 2, "N", 1)
Rooms == {HomeRoom, WestRoom}
\* the room north of my room belongs to another player
NorthRoom == RoomName("W", 1, "N", 2)
AllRooms == Rooms \cup {NorthRoom}
\* the room east of my room has a source next to its south-west corner
EdgeRoom == RoomName("W", 0, "N", 1)

\* room.controller: "me" (controller.my), "other" (controller.owner of a third
\* party), "none" (no controller, or a controller without owner)
RoomOwner(r) == IF r = HomeRoom THEN "me" ELSE IF r = NorthRoom THEN "other" ELSE "none"

Pos(x, y, r) == [x |-> x, y |-> y, roomName |-> r]

SourceIds == {"s1", "s2", "s3", "s4", "s5"}
\* the order in which room.find(FIND_SOURCES) and Game.rooms list the sources
FindOrder == <<"s1", "s2", "s3", "s4", "s5">>
\* one source in my room, two in the room west of it, one in the room north,
\* one in the room east, one tile away from the edges of that room
SourcePos(s) ==
    CASE s = "s1" -> Pos(10, 10, HomeRoom)
      [] s = "s2" -> Pos(10, 10, WestRoom)
      [] s = "s3" -> Pos(30, 30, WestRoom)
      [] s = "s4" -> Pos(20, 20, NorthRoom)
      [] s = "s5" -> Pos(1, 48, EdgeRoom)

\* terrain: the tiles that are not walls. s1 and s2 have one open tile next
\* to them, s3 has two, s4 has three, s5 has two (one of them an exit tile)
OpenTiles == { Pos(9, 10, HomeRoom), Pos(40, 40, HomeRoom),
               Pos(11, 10, WestRoom), Pos(29, 30, WestRoom), Pos(31, 30, WestRoom),
               Pos(19, 20, NorthRoom), Pos(21, 20, NorthRoom), Pos(20, 21, NorthRoom),
               Pos(0, 48, EdgeRoom), Pos(2, 47, EdgeRoom) }
IsWall(x, y, r) == Pos(x, y, r) \notin OpenTiles

Creeps == {"c1", "c2"}
Dead == [x |-> -1, y |-> -1, roomName |-> HomeRoom]
NoCreep == "null"
NoSource == "null"
\* data.priority absent from the signal's payload
Undefined == -1
PriorityInputs == {0, 1}

Alive(c) == creepPos[c] # Dead

\* the two creeps: c1 is a supplier, which works in any room and lets the
\* planner send it to another room; c2 is an upgrader, which stays in my room
\* and asks for sources of its own room only. Tiles(c): where c stands
Tiles(c) ==
    IF c = "c1"
    THEN { Pos(9, 10, HomeRoom), Pos(11, 10, WestRoom), Pos(29, 30, WestRoom) }
    ELSE { Pos(9, 10, HomeRoom), Pos(40, 40, HomeRoom) }
AllowsCrossRoom(c) == c = "c1"

----------------------------------------------------------------------------
(* Helpers for JavaScript arrays and objects *)

\* Array.prototype.filter(...).length
CountSeq(seq, Test(_)) == Cardinality({ i \in 1..Len(seq) : Test(seq[i]) })

\* the sequence without its i-th element: Array.prototype.splice(i, 1)
RemoveAt(seq, i) == [ j \in 1..(Len(seq) - 1) |-> IF j < i THEN seq[j] ELSE seq[j + 1] ]

\* Array.prototype.findIndex, 1-based; 0 when no element passes
FindIndex(seq, Test(_)) ==
    IF \E i \in 1..Len(seq) : Test(seq[i])
    THEN CHOOSE i \in 1..Len(seq) : Test(seq[i]) /\ \A j \in 1..(i - 1) : ~Test(seq[j])
    ELSE 0

Abs(n) == IF n < 0 THEN 0 - n ELSE n
Max(a, b) == IF a > b THEN a ELSE b

\* RoomPosition.getRangeTo: Chebyshev distance inside one room, Infinity across rooms
Infinity == 1000000
GetRangeTo(a, b) ==
    IF a.roomName # b.roomName THEN Infinity
    ELSE Max(Abs(a.x - b.x), Abs(a.y - b.y))

----------------------------------------------------------------------------
(* Slot index: scanSource, scanAllSources, updateOccupancyStatus *)

\* the order of the two nested loops over dx and dy, without the centre
Offsets == << <<-1, -1>>, <<-1, 0>>, <<-1, 1>>, <<0, -1>>, <<0, 1>>,
              <<1, -1>>, <<1, 0>>, <<1, 1>> >>

\* the test of the room bounds that leaves out the edge tiles
InRoom_WithoutEdge(x, y) == ~(x <= 0 \/ x >= ROOM_MAX \/ y <= 0 \/ y >= ROOM_MAX)

InRoom(x, y) == ~(x < 0 \/ x > ROOM_MAX \/ y < 0 \/ y > ROOM_MAX)

SlotAt(s, o) ==
    LET x == SourcePos(s).x + o[1]
        y == SourcePos(s).y + o[2]
    IN  [x |-> x, y |-> y, isBlocked |-> IsWall(x, y, SourcePos(s).roomName),
         occupiedBy |-> NoCreep]

ScanPositions(s) ==
    LET inside == SelectSeq(Offsets,
                    LAMBDA o : InRoom(SourcePos(s).x + o[1], SourcePos(s).y + o[2]))
    IN  [ i \in 1..Len(inside) |-> SlotAt(s, inside[i]) ]

NotBlocked(pos) == ~pos.isBlocked
FreeSlot(pos) == ~pos.isBlocked /\ pos.occupiedBy = NoCreep

\* scanSource: the record of source s after a scan, given the database db
ScannedData(db, s) ==
    LET old == IF s \in DOMAIN db THEN db[s]
               ELSE [sourceId |-> s, roomName |-> SourcePos(s).roomName,
                     positions |-> <<>>, totalPositions |-> 0, freePositions |-> 0]
        positions == ScanPositions(s)
    IN  [old EXCEPT !.positions = positions,
                    !.totalPositions = CountSeq(positions, NotBlocked)]

\* scanSource on each source of the set found, in FindOrder
scanSources(d, found) ==
    LET new == SelectSeq(FindOrder, LAMBDA s : s \in found /\ s \notin DOMAIN d.db)
    IN  [db   |-> [ s \in DOMAIN d.db \cup found |->
                      IF s \in found THEN ScannedData(d.db, s) ELSE d.db[s] ],
         keys |-> d.keys \o new]

SourcesIn(rooms) == { s \in SourceIds : SourcePos(s).roomName \in rooms }

scanAllSources(d) == scanSources(d, SourcesIn(visibleRooms))

ClearOccupants(sd) ==
    [sd EXCEPT !.positions = [ i \in 1..Len(sd.positions) |->
                                 [sd.positions[i] EXCEPT !.occupiedBy = NoCreep] ]]

\* the creep takes a slot of its assigned source: the range check against the
\* first slot, then the slot at the creep's exact position
OccupiesSlot(c, sd, i) ==
    /\ Alive(c)
    /\ Len(sd.positions) > 0
    /\ Abs(creepPos[c].x - sd.positions[1].x) <= 2
    /\ Abs(creepPos[c].y - sd.positions[1].y) <= 2
    /\ creepPos[c].roomName = sd.roomName
    /\ i = FindIndex(sd.positions,
             LAMBDA pos : pos.x = creepPos[c].x /\ pos.y = creepPos[c].y /\ ~pos.isBlocked)

\* the marks without the test of the assignment: any creep on a slot
MarkOccupants_AnyCreep(sd, s, asg) ==
    [sd EXCEPT !.positions = [ i \in 1..Len(sd.positions) |->
        IF \E c \in Creeps : OccupiesSlot(c, sd, i)
        THEN [sd.positions[i] EXCEPT !.occupiedBy =
                 CHOOSE c \in Creeps : OccupiesSlot(c, sd, i)]
        ELSE sd.positions[i] ]]

MarkOccupants(sd, s, asg) ==
    [sd EXCEPT !.positions = [ i \in 1..Len(sd.positions) |->
        IF \E c \in Creeps : asg[c] = s /\ OccupiesSlot(c, sd, i)
        THEN [sd.positions[i] EXCEPT !.occupiedBy =
                 CHOOSE c \in Creeps : asg[c] = s /\ OccupiesSlot(c, sd, i)]
        ELSE sd.positions[i] ]]

updateOccupancyStatus(db, asg) ==
    LET assignedCreeps == { c \in Creeps : asg[c] # NoSource }
        activeSources == { asg[c] : c \in assignedCreeps }
    IN  IF assignedCreeps = {}
        THEN [ s \in DOMAIN db |->
                 [ClearOccupants(db[s]) EXCEPT
                     !.freePositions = CountSeq(db[s].positions, NotBlocked)] ]
        ELSE [ s \in DOMAIN db |->
                 IF s \in activeSources
                 THEN LET marked == MarkOccupants(ClearOccupants(db[s]), s, asg)
                      IN  [marked EXCEPT !.freePositions = CountSeq(marked.positions, FreeSlot)]
                 ELSE db[s] ]

----------------------------------------------------------------------------
(* Region adjacency: getAdjacentRoomNames, isRoomAccessible, scanAdjacentRooms *)

\* north, south, west, east
Directions == << [dx |-> 0, dy |-> -1], [dx |-> 0, dy |-> 1],
                 [dx |-> -1, dy |-> 0], [dx |-> 1, dy |-> 0] >>

Flip(letter) ==
    CASE letter = "E" -> "W" [] letter = "W" -> "E"
      [] letter = "N" -> "S" [] letter = "S" -> "N"

\* the step over the border of a hemisphere keeps the letter
AdjacentRoom_NoFlip(r, dir) ==
    LET rawX == IF dir.dx = 0 THEN r.x
                ELSE IF r.ew = "E" THEN r.x + dir.dx ELSE r.x - dir.dx
        rawY == IF dir.dy = 0 THEN r.y
                ELSE IF r.ns = "S" THEN r.y + dir.dy ELSE r.y - dir.dy
    IN  RoomName(r.ew, IF rawX < 0 THEN Abs(rawX) - 1 ELSE rawX,
                 r.ns, IF rawY < 0 THEN Abs(rawY) - 1 ELSE rawY)

AdjacentRoom(r, dir) ==
    LET rawX == IF dir.dx = 0 THEN r.x
                ELSE IF r.ew = "E" THEN r.x + dir.dx ELSE r.x - dir.dx
        rawY == IF dir.dy = 0 THEN r.y
                ELSE IF r.ns = "S" THEN r.y + dir.dy ELSE r.y - dir.dy
    IN  RoomName(IF rawX < 0 THEN Flip(r.ew) ELSE r.ew,
                 IF rawX < 0 THEN Abs(rawX) - 1 ELSE rawX,
                 IF rawY < 0 THEN Flip(r.ns) ELSE r.ns,
                 IF rawY < 0 THEN Abs(rawY) - 1 ELSE rawY)

getAdjacentRoomNames(r) == [ i \in 1..Len(Directions) |-> AdjacentRoom(r, Directions[i]) ]

\* isRoomAccessible that does not look at the owner of the room
isRoomAccessible_IgnoresOwner(r) == r \in visibleRooms

isRoomAccessible(r) ==
    IF r \notin visibleRooms THEN FALSE
    ELSE IF RoomOwner(r) = "none" THEN TRUE
    ELSE IF RoomOwner(r) = "me" THEN TRUE
    ELSE FALSE

\* requestScout: no signal while a scout creep is on its way to the room; no
\* creep of the model has the role scout
ExistingScout(targetRoomName) == FALSE
requestScout(targetRoomName, fromRoomName) ==
    IF ExistingScout(targetRoomName) THEN <<>>
    ELSE << [targetRoomName |-> targetRoomName, fromRoomName |-> fromRoomName,
             purpose |-> "harvest_planning"] >>

\* the scout.need_room_vision signals of scanAdjacentRooms: the loop skips a
\* room that fails isRoomAccessible and asks for a scout when the room that
\* passed is not in Game.rooms
RECURSIVE ScoutsFrom(_, _)
ScoutsFrom(r, i) ==
    LET adjacentRooms == getAdjacentRoomNames(r)
    IN  IF i > Len(adjacentRooms) THEN <<>>
        ELSE ( IF ~isRoomAccessible(adjacentRooms[i]) THEN <<>>
               ELSE IF adjacentRooms[i] \notin visibleRooms
                    THEN requestScout(adjacentRooms[i], r)
                    ELSE <<>> ) \o ScoutsFrom(r, i + 1)

RECURSIVE ScoutsOf(_)
ScoutsOf(myRooms) ==
    IF myRooms = {} THEN <<>>
    ELSE LET r == CHOOSE x \in myRooms : TRUE
         IN  ScoutsFrom(r, 1) \o ScoutsOf(myRooms \ {r})

scanAdjacentRoomsSignals ==
    ScoutsOf({ r \in visibleRooms : RoomOwner(r) = "me" })

\* scanAdjacentRooms fills the cache for each of myRooms that has no entry
NoRoomsCached == <<>>
CacheRooms(cache, myRooms) ==
    [ r \in DOMAIN cache \cup myRooms |->
        IF r \in DOMAIN cache THEN cache[r] ELSE getAdjacentRoomNames(r) ]
MyVisibleRooms == { r \in visibleRooms : RoomOwner(r) = "me" }

\* the adjacent rooms of my rooms that pass isRoomAccessible; such a room is
\* visible, so the branch that asks for a scout is never taken
scanAdjacentRooms(d) ==
    LET myRooms == { r \in visibleRooms : RoomOwner(r) = "me" }
        scanned == { a \in visibleRooms : \E r \in myRooms :
                        /\ \E i \in 1..Len(getAdjacentRoomNames(r)) :
                              getAdjacentRoomNames(r)[i] = a
                        /\ isRoomAccessible(a) }
    IN  scanSources(d, SourcesIn(scanned))

----------------------------------------------------------------------------
(* Request queue: handleHarvestRequest, cleanupTimeoutRequests *)

\* data.priority || 5: an absent priority and the priority 0 are both falsy
PriorityOrDefault(priority) ==
    IF priority = Undefined \/ priority = 0 THEN DEFAULT_PRIORITY ELSE priority

\* the assignment of the submitting creep still stands: its source is known
\* and has a free position
AssignmentValid(db, sourceId) ==
    sourceId \in DOMAIN db /\ db[sourceId].freePositions > 0

\* the queued entry a submit is a repetition of
SameRequest(req, request) ==
    req.creepName = request.creepName /\ req.roomName = request.roomName

\* handleHarvestRequest without the early return for a valid assignment: the
\* assignment is always cleared and the request goes on to the queue
handleHarvestRequest_NoValidReturn(p, db, data, t) ==
    LET request == [creepName |-> data.creepName, roomName |-> data.roomName,
                    requestTime |-> t, priority |-> PriorityOrDefault(data.priority),
                    allowCrossRoom |-> data.allowCrossRoom]
        c == request.creepName
        asg1 == [p.asg EXCEPT ![c] = NoSource]
        idx == FindIndex(p.reqs, LAMBDA req : SameRequest(req, request))
    IN  IF idx >= 1
        THEN IF request.priority < p.reqs[idx].priority
             THEN [reqs |-> [p.reqs EXCEPT ![idx].priority = request.priority,
                                           ![idx].requestTime = t],
                   asg |-> asg1]
             ELSE [reqs |-> p.reqs, asg |-> asg1]
        ELSE IF ~Alive(c)
        THEN [reqs |-> p.reqs, asg |-> asg1]
        ELSE [reqs |-> Append(p.reqs, request), asg |-> asg1]

\* handleHarvestRequest that refreshes the request time of the queued entry
\* on every repeated submit, whatever the priority
handleHarvestRequest_AlwaysRefresh(p, db, data, t) ==
    LET request == [creepName |-> data.creepName, roomName |-> data.roomName,
                    requestTime |-> t, priority |-> PriorityOrDefault(data.priority),
                    allowCrossRoom |-> data.allowCrossRoom]
        c == request.creepName
        asg1 == IF p.asg[c] # NoSource THEN [p.asg EXCEPT ![c] = NoSource] ELSE p.asg
        idx == FindIndex(p.reqs, LAMBDA req : SameRequest(req, request))
    IN  IF p.asg[c] # NoSource /\ AssignmentValid(db, p.asg[c])
        THEN p
        ELSE IF idx >= 1
        THEN [reqs |-> [p.reqs EXCEPT
                           ![idx].priority = IF request.priority < p.reqs[idx].priority
                                             THEN request.priority ELSE p.reqs[idx].priority,
                           ![idx].requestTime = t],
              asg |-> asg1]
        ELSE IF ~Alive(c)
        THEN [reqs |-> p.reqs, asg |-> asg1]
        ELSE [reqs |-> Append(p.reqs, request), asg |-> asg1]

\* handleHarvestRequest(data) at Game.time t, on the queue and the assignment
\* table p = [reqs, asg]; the source database is only read
handleHarvestRequest(p, db, data, t) ==
    LET request == [creepName |-> data.creepName, roomName |-> data.roomName,
                    requestTime |-> t, priority |-> PriorityOrDefault(data.priority),
                    allowCrossRoom |-> data.allowCrossRoom]
        c == request.creepName
        asg1 == IF p.asg[c] # NoSource THEN [p.asg EXCEPT ![c] = NoSource] ELSE p.asg
        idx == FindIndex(p.reqs, LAMBDA req : SameRequest(req, request))
    IN  IF p.asg[c] # NoSource /\ AssignmentValid(db, p.asg[c])
        THEN p
        ELSE IF idx >= 1
        THEN IF request.priority < p.reqs[idx].priority
             THEN [reqs |-> [p.reqs EXCEPT ![idx].priority = request.priority,
                                           ![idx].requestTime = t],
                   asg |-> asg1]
             ELSE [reqs |-> p.reqs, asg |-> asg1]
        ELSE IF ~Alive(c)
        THEN [reqs |-> p.reqs, asg |-> asg1]
        ELSE [reqs |-> Append(p.reqs, request), asg |-> asg1]

\* the timeout test with >= in place of >
IsTimeout_AtThreshold(req, t) == t - req.requestTime >= REQUEST_TIMEOUT

IsTimeout(req, t) == t - req.requestTime > REQUEST_TIMEOUT

cleanupTimeoutRequests(reqs, t) == SelectSeq(reqs, LAMBDA req : ~IsTimeout(req, t))

----------------------------------------------------------------------------
(* Assignment resolver: assignSourceToCreep, processHarvestRequests *)

\* the compare function of harvestRequests.sort
RequestCompare(a, b) == a.priority - b.priority

\* Array.prototype.sort is stable: an element moves before the elements that
\* compare greater, and stays behind those that compare equal
RECURSIVE InsertRequest(_, _)
InsertRequest(sorted, e) ==
    IF sorted = <<>> THEN <<e>>
    ELSE IF RequestCompare(e, sorted[Len(sorted)]) < 0
         THEN Append(InsertRequest(SubSeq(sorted, 1, Len(sorted) - 1), e), sorted[Len(sorted)])
         ELSE Append(sorted, e)

RECURSIVE SortRequests(_)
SortRequests(seq) ==
    IF seq = <<>> THEN <<>>
    ELSE InsertRequest(SortRequests(SubSeq(seq, 1, Len(seq) - 1)), seq[Len(seq)])

\* safeGetObjectById: the game returns objects of visible rooms only
SourceObjectExists(s) == SourcePos(s).roomName \in visibleRooms

\* candidates of the request's own room only
IsCandidate_LocalOnly(db, s, request) ==
    /\ ~(db[s].freePositions <= 0)
    /\ SourceObjectExists(s)
    /\ db[s].roomName = request.roomName

\* candidates without the test of the free positions
IsCandidate_IgnoresFree(db, s, request) ==
    /\ SourceObjectExists(s)
    /\ ~(~request.allowCrossRoom /\ db[s].roomName # request.roomName)
    /\ ~(db[s].roomName # request.roomName /\ ~isRoomAccessible(db[s].roomName))

IsCandidate(db, s, request) ==
    /\ ~(db[s].freePositions <= 0)
    /\ SourceObjectExists(s)
    /\ ~(~request.allowCrossRoom /\ db[s].roomName # request.roomName)
    /\ ~(db[s].roomName # request.roomName /\ ~isRoomAccessible(db[s].roomName))

Candidate(db, s, request) ==
    [sourceId |-> s,
     distance |-> GetRangeTo(creepPos[request.creepName], SourcePos(s)),
     freePositions |-> db[s].freePositions,
     isLocalRoom |-> db[s].roomName = request.roomName]

\* the compare function without the test of the local room
CandidateCompare_NoLocalFirst(a, b) ==
    IF a.freePositions # b.freePositions THEN b.freePositions - a.freePositions
    ELSE a.distance - b.distance

\* the compare function with the fewer free positions first
CandidateCompare_FewerFreeFirst(a, b) ==
    IF a.isLocalRoom # b.isLocalRoom THEN (IF a.isLocalRoom THEN -1 ELSE 1)
    ELSE IF a.freePositions # b.freePositions THEN a.freePositions - b.freePositions
    ELSE a.distance - b.distance

\* the compare function of candidates.sort: local room first, then more free
\* positions, then the shorter distance
CandidateCompare(a, b) ==
    IF a.isLocalRoom # b.isLocalRoom THEN (IF a.isLocalRoom THEN -1 ELSE 1)
    ELSE IF a.freePositions # b.freePositions THEN b.freePositions - a.freePositions
    ELSE a.distance - b.distance

RECURSIVE InsertCandidate(_, _)
InsertCandidate(sorted, e) ==
    IF sorted = <<>> THEN <<e>>
    ELSE IF CandidateCompare(e, sorted[Len(sorted)]) < 0
         THEN Append(InsertCandidate(SubSeq(sorted, 1, Len(sorted) - 1), e), sorted[Len(sorted)])
         ELSE Append(sorted, e)

RECURSIVE SortCandidates(_)
SortCandidates(seq) ==
    IF seq = <<>> THEN <<>>
    ELSE InsertCandidate(SortCandidates(SubSeq(seq, 1, Len(seq) - 1)), seq[Len(seq)])

\* assignSourceToCreep(request): the selected source id, or NoSource
assignSourceToCreep(db, keys, request) ==
    IF ~Alive(request.creepName) THEN NoSource
    ELSE LET ids == SelectSeq(keys, LAMBDA s : IsCandidate(db, s, request))
             candidates == [ i \in 1..Len(ids) |-> Candidate(db, ids[i], request) ]
         IN  IF Len(candidates) = 0 THEN NoSource
             ELSE SortCandidates(candidates)[1].sourceId

\* one iteration of the loop of processHarvestRequests, on
ProcessRequest_RequestRoom(st, keys, i) ==
    LET request == st.reqs[i]
        assignedSourceId == assignSourceToCreep(st.db, keys, request)
        seen == [st EXCEPT !.order = Append(st.order, request)]
    IN  IF ~Alive(request.creepName)
        THEN [seen EXCEPT !.reqs = RemoveAt(st.reqs, i)]
        ELSE IF assignedSourceId # NoSource
        THEN [seen EXCEPT !.asg = [st.asg EXCEPT ![request.creepName] = assignedSourceId],
                          !.reqs = RemoveAt(st.reqs, i),
                          !.emitted = Append(st.emitted,
                              [creepName |-> request.creepName,
                               sourceId |-> assignedSourceId,
                               roomName |-> request.roomName])]
        ELSE seen

ProcessRequest_DropsUnmatched(st, keys, i) ==
    LET request == st.reqs[i]
        assignedSourceId == assignSourceToCreep(st.db, keys, request)
        seen == [st EXCEPT !.order = Append(st.order, request)]
    IN  IF ~Alive(request.creepName) \/ assignedSourceId = NoSource
        THEN [seen EXCEPT !.reqs = RemoveAt(st.reqs, i)]
        ELSE [seen EXCEPT !.asg = [st.asg EXCEPT ![request.creepName] = assignedSourceId],
                          !.reqs = RemoveAt(st.reqs, i),
                          !.emitted = Append(st.emitted,
                              [creepName |-> request.creepName,
                               sourceId |-> assignedSourceId,
                               roomName |-> st.db[assignedSourceId].roomName])]

ProcessRequest_SkipsDead(st, keys, i) ==
    LET request == st.reqs[i]
        assignedSourceId == assignSourceToCreep(st.db, keys, request)
        seen == [st EXCEPT !.order = Append(st.order, request)]
    IN  IF ~Alive(request.creepName) \/ assignedSourceId = NoSource
        THEN seen
        ELSE [seen EXCEPT !.asg = [st.asg EXCEPT ![request.creepName] = assignedSourceId],
                          !.reqs = RemoveAt(st.reqs, i),
                          !.emitted = Append(st.emitted,
                              [creepName |-> request.creepName,
                               sourceId |-> assignedSourceId,
                               roomName |-> st.db[assignedSourceId].roomName])]

\* st = [reqs, asg, db, emitted, order]
ProcessRequest(st, keys, i) ==
    LET request == st.reqs[i]
        assignedSourceId == assignSourceToCreep(st.db, keys, request)
        seen == [st EXCEPT !.order = Append(st.order, request)]
    IN  IF ~Alive(request.creepName)
        THEN [seen EXCEPT !.reqs = RemoveAt(st.reqs, i)]
        ELSE IF assignedSourceId # NoSource
        THEN [seen EXCEPT !.asg = [st.asg EXCEPT ![request.creepName] = assignedSourceId],
                          !.reqs = RemoveAt(st.reqs, i),
                          !.emitted = Append(st.emitted,
                              [creepName |-> request.creepName,
                               sourceId |-> assignedSourceId,
                               roomName |-> st.db[assignedSourceId].roomName])]
        ELSE seen

\* the loop runs from the last index of the sorted queue down to the first
RECURSIVE ProcessFrom(_, _, _)
ProcessFrom(st, keys, i) ==
    IF i < 1 THEN st ELSE ProcessFrom(ProcessRequest(st, keys, i), keys, i - 1)

processHarvestRequests(st, keys) ==
    IF Len(st.reqs) = 0 THEN st
    ELSE LET sorted == [st EXCEPT !.reqs = SortRequests(st.reqs)]
         IN  ProcessFrom(sorted, keys, Len(sorted.reqs))

----------------------------------------------------------------------------
(* Lifecycle: handleCreepDeath, releaseCreepAssignment *)

\* handleCreepDeath that clears the assignment and leaves the queue alone
handleCreepDeath_AssignmentOnly(p, creepName) ==
    [reqs |-> p.reqs,
     asg  |-> IF p.asg[creepName] # NoSource
              THEN [p.asg EXCEPT ![creepName] = NoSource] ELSE p.asg]

\* handleCreepDeath that removes from the queue the first request of the
\* creep only
handleCreepDeath_FirstRequestOnly(p, creepName) ==
    LET idx == FindIndex(p.reqs, LAMBDA req : req.creepName = creepName)
    IN  [reqs |-> IF idx >= 1 THEN RemoveAt(p.reqs, idx) ELSE p.reqs,
         asg  |-> IF p.asg[creepName] # NoSource
                  THEN [p.asg EXCEPT ![creepName] = NoSource] ELSE p.asg]

handleCreepDeath(p, creepName) ==
    [reqs |-> SelectSeq(p.reqs, LAMBDA req : req.creepName # creepName),
     asg  |-> IF p.asg[creepName] # NoSource
              THEN [p.asg EXCEPT ![creepName] = NoSource] ELSE p.asg]

\* releaseCreepAssignment that clears the whole table
releaseCreepAssignment_ClearsAll(asg, creepName) ==
    IF asg[creepName] # NoSource THEN [ c \in Creeps |-> NoSource ] ELSE asg

releaseCreepAssignment(asg, creepName) ==
    IF asg[creepName] # NoSource THEN [asg EXCEPT ![creepName] = NoSource] ELSE asg

getAssignedSource(creepName) == assignments[creepName]

isSourceFull(sourceId) ==
    IF sourceId \in DOMAIN sourceDatabase
    THEN sourceDatabase[sourceId].freePositions <= 0 ELSE FALSE

----------------------------------------------------------------------------
(* The per-tick pipeline: run *)

Fires(t, interval) == t % interval = 0

\* the key-value store of the memory manager: a value stored under a path is
\* the value read back from it
setGlobalMemory(mem, path, value) == [mem EXCEPT ![path] = value]
getGlobalMemory(mem, path) == mem[path]

\* saveData() stores the source database, the assignments and the cache of
\* the adjacent rooms in Memory (the request queue is not stored)
saveData(mem, db, keys, asg, adj) ==
    setGlobalMemory(
        setGlobalMemory(
            setGlobalMemory(mem, "sources", [db |-> db, keys |-> keys]),
            "assignments", asg),
        "adjacentRooms", adj)

\* the steps of run() at Game.time t, each on the planner state
\* st = [db, keys, reqs, asg, adj, emitted, order, scouts, mem]
runOccupancy(st, t) ==
    IF Fires(t, OCCUPANCY_INTERVAL)
    THEN [st EXCEPT !.db = updateOccupancyStatus(st.db, st.asg)] ELSE st

ScanInto(st, d) == [st EXCEPT !.db = d.db, !.keys = d.keys]

runScan(st, t) ==
    IF Fires(t, SCAN_INTERVAL)
    THEN ScanInto(st, scanAllSources([db |-> st.db, keys |-> st.keys])) ELSE st

runAdjacent(st, t) ==
    IF Fires(t, ADJACENT_SCAN_INTERVAL)
    THEN [ScanInto(st, scanAdjacentRooms([db |-> st.db, keys |-> st.keys]))
            EXCEPT !.scouts = scanAdjacentRoomsSignals,
                   !.adj = CacheRooms(st.adj, MyVisibleRooms)]
    ELSE st

PassInto(st, p) ==
    [st EXCEPT !.reqs = p.reqs, !.asg = p.asg, !.emitted = p.emitted, !.order = p.order]

runProcess(st, t) ==
    PassInto(st, processHarvestRequests(
                    [reqs |-> st.reqs, asg |-> st.asg, db |-> st.db,
                     emitted |-> <<>>, order |-> <<>>], st.keys))

runCleanup(st, t) ==
    IF Fires(t, CLEANUP_INTERVAL)
    THEN [st EXCEPT !.reqs = cleanupTimeoutRequests(st.reqs, t)] ELSE st

runSave(st, t) ==
    IF Fires(t, SAVE_INTERVAL)
    THEN [st EXCEPT !.mem = saveData(st.mem, st.db, st.keys, st.asg, st.adj)] ELSE st

run_ProcessFirst(st, t) ==
    runSave(runCleanup(runAdjacent(runScan(runOccupancy(runProcess(st, t), t), t), t), t), t)
run_RescanFirst(st, t) ==
    runSave(runCleanup(runProcess(runAdjacent(runOccupancy(runScan(st, t), t), t), t), t), t)
run_CleanupFirst(st, t) ==
    runSave(runProcess(runCleanup(runAdjacent(runScan(runOccupancy(st, t), t), t), t), t), t)
run_SaveFirst(st, t) ==
    runCleanup(runProcess(runSave(runAdjacent(runScan(runOccupancy(st, t), t), t), t), t), t)

\* run() at Game.time t on the planner state [db, keys, reqs, asg, mem]: the
\* result carries the signals emitted and the order of the pass as well
run(st, t) ==
    runSave(runCleanup(runProcess(runAdjacent(runScan(runOccupancy(st, t), t), t), t), t), t)

----------------------------------------------------------------------------
(* The state machine *)

Op(name, creepName) == [op |-> name, creepName |-> creepName]

\* the constructor: initializeSourceDatabase restores the source database
\* saved in memory, scans the visible rooms and then the adjacent rooms
Constructed(savedData) ==
    scanAdjacentRooms(scanAllSources(savedData))

\* memory holds nothing, or what saveData() stored on an idle tick of an
\* earlier run of the script: the sources of my room after an occupancy
\* update without assignments
NothingSaved == [db |-> <<>>, keys |-> <<>>]
SavedIdle ==
    LET first == scanSources(NothingSaved, SourcesIn({HomeRoom}))
    IN  [db |-> updateOccupancyStatus(first.db, [ c \in Creeps |-> NoSource ]),
         keys |-> first.keys]

\* Memory at the start of a run of the script: every creep has its entry in
\* Memory.creeps, and the planner tables are the ones an earlier run stored
StoredMemory(savedData, savedAssignments) ==
    [creeps |-> Creeps,
     sources |-> [db |-> savedData.db, keys |-> savedData.keys],
     assignments |-> savedAssignments,
     adjacentRooms |-> IF savedData.keys = <<>> THEN NoRoomsCached
                       ELSE CacheRooms(NoRoomsCached, {HomeRoom})]

\* the connections of the signal creep.energy_full; the planner connects
\* its handlers to other signals
NoConnections == <<>>
NoEmit == [invoked |-> <<>>, returned |-> TRUE]

Init ==
    /\ time = StartTime
    /\ creepPos \in { f \in [Creeps -> OpenTiles] :
                        /\ \A c \in Creeps : f[c] \in Tiles(c)
                        /\ \A c, d \in Creeps : c # d => f[c] # f[d] }
    /\ visibleRooms \in { {HomeRoom}, Rooms }
    /\ \A c \in Creeps : creepPos[c].roomName \in visibleRooms
    /\ \E savedData \in {NothingSaved, SavedIdle} :
          /\ sourceDatabase = Constructed(savedData).db
          /\ sourceKeys = Constructed(savedData).keys
          /\ Memory = StoredMemory(savedData, [ c \in Creeps |-> NoSource ])
    /\ harvestRequests = <<>>
    /\ assignments = [ c \in Creeps |-> NoSource ]
    /\ lastOp = Op("constructor", NoCreep)
    /\ emitted = <<>>
    /\ passOrder = <<>>
    /\ scouts = scanAdjacentRoomsSignals
    /\ adjacentRoomsCache =
          CacheRooms(getGlobalMemory(Memory, "adjacentRooms"), MyVisibleRooms)
    /\ connections = NoConnections
    /\ lastEmit = NoEmit

\* the planner and Memory take the values run() left
Becomes(after) ==
    /\ sourceDatabase' = after.db
    /\ sourceKeys' = after.keys
    /\ harvestRequests' = after.reqs
    /\ assignments' = after.asg
    /\ emitted' = after.emitted
    /\ passOrder' = after.order
    /\ adjacentRoomsCache' = after.adj
    /\ scouts' = after.scouts
    /\ Memory' = after.mem

\* the game starts the next tick and main.ts emits system.tick_start
TickAt(t) ==
    /\ time' = t
    /\ Becomes(run([db |-> sourceDatabase, keys |-> sourceKeys,
                     reqs |-> harvestRequests, asg |-> assignments,
                     adj |-> adjacentRoomsCache,
                     emitted |-> <<>>, order |-> <<>>, scouts |-> <<>>,
                     mem |-> Memory], t))
    /\ lastOp' = Op("run", NoCreep)
    /\ UNCHANGED <<creepPos, visibleRooms, bus>>

TickUntil(last) ==
    /\ time < last
    /\ TickAt(time + 1)

Tick == TickUntil(MaxTime)

\* the signal harvest.need_source { creepName, roomName, priority, allowCrossRoom }
Submit(data) ==
    /\ LET after == handleHarvestRequest(
                       [reqs |-> harvestRequests, asg |-> assignments],
                       sourceDatabase, data, time)
       IN  /\ Len(after.reqs) <= MaxQueue
           /\ harvestRequests' = after.reqs
           /\ assignments' = after.asg
    /\ lastOp' = Op("submit", data.creepName)
    /\ emitted' = <<>>
    /\ passOrder' = <<>>
    /\ scouts' = <<>>
    /\ UNCHANGED <<world, sourceDatabase, sourceKeys, adjacentRoomsCache, Memory, bus>>

\* the signal creep.memory_cleaned { creepName }, which cleanupDeadCreeps of
\* main.ts emits for a name of Memory.creeps that is no longer in Game.creeps,
\* after it deleted the entry
CreepDeath(c) ==
    /\ c \in Memory.creeps
    /\ ~Alive(c)
    /\ Memory' = [Memory EXCEPT !.creeps = @ \ {c}]
    /\ LET after == handleCreepDeath([reqs |-> harvestRequests, asg |-> assignments], c)
       IN  /\ harvestRequests' = after.reqs
           /\ assignments' = after.asg
    /\ lastOp' = Op("death", c)
    /\ emitted' = <<>>
    /\ passOrder' = <<>>
    /\ scouts' = <<>>
    /\ UNCHANGED <<world, sourceDatabase, sourceKeys, adjacentRoomsCache, bus>>

\* harvestPlanner.releaseCreepAssignment(creepName)
Release(c) ==
    /\ assignments' = releaseCreepAssignment(assignments, c)
    /\ lastOp' = Op("release", c)
    /\ emitted' = <<>>
    /\ passOrder' = <<>>
    /\ scouts' = <<>>
    /\ UNCHANGED <<world, sourceDatabase, sourceKeys, harvestRequests,
                   adjacentRoomsCache, Memory, bus>>

\* the world between two handlers: a creep moves to a free tile (and sees
\* the room it enters), a creep dies, a room comes into view or goes out of view
WorldStep ==
    /\ lastOp' = Op("world", NoCreep)
    /\ emitted' = <<>>
    /\ passOrder' = <<>>
    /\ scouts' = <<>>
    /\ UNCHANGED <<time, planner, Memory, bus>>

CreepMoves(c, tile) ==
    /\ Alive(c)
    /\ creepPos[c] # tile
    /\ \A d \in Creeps : creepPos[d] # tile
    /\ tile \in Tiles(c)
    /\ creepPos' = [creepPos EXCEPT ![c] = tile]
    /\ visibleRooms' = visibleRooms \cup {tile.roomName}
    /\ WorldStep

CreepDies(c) ==
    /\ Alive(c)
    /\ creepPos' = [creepPos EXCEPT ![c] = Dead]
    /\ UNCHANGED visibleRooms
    /\ WorldStep

\* my own room is always visible; another room is visible while a creep or
\* an observer of mine is in it
VisionChanges(r) ==
    /\ RoomOwner(r) # "me"
    /\ visibleRooms' = IF r \in visibleRooms THEN visibleRooms \ {r}
                       ELSE visibleRooms \cup {r}
    /\ \A c \in Creeps : Alive(c) => creepPos[c].roomName \in visibleRooms'
    /\ UNCHANGED creepPos
    /\ WorldStep

\* the payloads of harvest.need_source: a creep names the room it is in
\* (roomName: creep.room.name) and the flag of its role; a sender that names
\* a creep that is gone names my room
SubmitData ==
    { data \in [creepName : Creeps, roomName : Rooms, priority : PriorityInputs,
                allowCrossRoom : BOOLEAN] :
        /\ data.roomName = IF Alive(data.creepName) THEN creepPos[data.creepName].roomName
                           ELSE HomeRoom
        /\ data.allowCrossRoom = AllowsCrossRoom(data.creepName) }

Next ==
    \/ Tick
    \/ \E data \in SubmitData : Submit(data)
    \/ \E c \in Creeps : CreepDeath(c)
    \/ \E c \in Creeps : Release(c)
    \/ \E c \in Creeps, tile \in OpenTiles : CreepMoves(c, tile)
    \/ \E c \in Creeps : CreepDies(c)
    \/ \E r \in Rooms : VisionChanges(r)

Spec == Init /\ [][Next]_vars

----------------------------------------------------------------------------
(* The timeout scenario: the only source of my room stays full, because c1
   is assigned to it and stands on its only free tile, and c2 asks for a
   source of my room tick after tick *)

\* what saveData() stored on a tick of an earlier run of the script, after
\* the occupancy update found c1 on the slot of s1
SavedBusy ==
    LET first == scanSources(NothingSaved, SourcesIn({HomeRoom}))
        asg == [ c \in Creeps |-> IF c = "c1" THEN "s1" ELSE NoSource ]
    IN  [db |-> [ s \in DOMAIN first.db |->
                    [first.db[s] EXCEPT !.freePositions = 0] ],
         keys |-> first.keys, asg |-> asg]

PriorityInputsT == {1, 5, 7}
SubmitDataT ==
    { data \in [creepName : {"c2"}, roomName : {HomeRoom}, priority : PriorityInputsT,
                allowCrossRoom : BOOLEAN] :
        data.allowCrossRoom = AllowsCrossRoom(data.creepName) }

InitT ==
    /\ time = StartTime
    /\ creepPos = [ c \in Creeps |-> IF c = "c1" THEN Pos(9, 10, HomeRoom)
                                     ELSE Pos(40, 40, HomeRoom) ]
    /\ visibleRooms = {HomeRoom}
    /\ sourceDatabase = Constructed([db |-> SavedBusy.db, keys |-> SavedBusy.keys]).db
    /\ sourceKeys = Constructed([db |-> SavedBusy.db, keys |-> SavedBusy.keys]).keys
    /\ harvestRequests = <<>>
    /\ assignments = SavedBusy.asg
    /\ Memory = StoredMemory(SavedBusy, SavedBusy.asg)
    /\ lastOp = Op("constructor", NoCreep)
    /\ emitted = <<>>
    /\ passOrder = <<>>
    /\ scouts = scanAdjacentRoomsSignals
    /\ adjacentRoomsCache =
          CacheRooms(getGlobalMemory(Memory, "adjacentRooms"), MyVisibleRooms)
    /\ connections = NoConnections
    /\ lastEmit = NoEmit

TickT == TickUntil(MaxTimeT)

NextT ==
    \/ TickT
    \/ \E data \in SubmitDataT : Submit(data)

SpecTimeout == InitT /\ [][NextT]_vars

----------------------------------------------------------------------------
(* The resolver scenario: both creeps work in my room and in the room west
   of it, the room north of it comes into view and goes out of view, and the
   script restarts from a memory that knows the sources of all three rooms *)

TilesR(c) ==
    IF c = "c1"
    THEN { Pos(9, 10, HomeRoom), Pos(40, 40, HomeRoom), Pos(11, 10, WestRoom),
           Pos(31, 30, WestRoom) }
    ELSE { Pos(9, 10, HomeRoom), Pos(40, 40, HomeRoom), Pos(29, 30, WestRoom) }

\* what saveData() stored on an idle tick, after an occupancy update without
\* assignments, with all three rooms in view
SavedIdleR ==
    LET first == scanSources(NothingSaved, SourcesIn(AllRooms))
    IN  [db |-> [ s \in DOMAIN first.db |->
                    [first.db[s] EXCEPT !.freePositions = first.db[s].totalPositions] ],
         keys |-> first.keys, asg |-> [ c \in Creeps |-> NoSource ]]

\* the same, stored after c1 was assigned to s1 and found on its slot
SavedBusyR ==
    [db |-> [SavedIdleR.db EXCEPT !["s1"].freePositions = 0],
     keys |-> SavedIdleR.keys,
     asg |-> [ c \in Creeps |-> IF c = "c1" THEN "s1" ELSE NoSource ]]

InitR ==
    /\ time = StartTime
    /\ creepPos = [ c \in Creeps |-> IF c = "c1" THEN Pos(9, 10, HomeRoom)
                                     ELSE Pos(40, 40, HomeRoom) ]
    /\ visibleRooms \in { {HomeRoom}, AllRooms }
    /\ \E saved \in {SavedIdleR, SavedBusyR} :
          /\ sourceDatabase = Constructed([db |-> saved.db, keys |-> saved.keys]).db
          /\ sourceKeys = Constructed([db |-> saved.db, keys |-> saved.keys]).keys
          /\ assignments = saved.asg
          /\ Memory = StoredMemory(saved, saved.asg)
    /\ harvestRequests = <<>>
    /\ lastOp = Op("constructor", NoCreep)
    /\ emitted = <<>>
    /\ passOrder = <<>>
    /\ scouts = scanAdjacentRoomsSignals
    /\ adjacentRoomsCache =
          CacheRooms(getGlobalMemory(Memory, "adjacentRooms"), MyVisibleRooms)
    /\ connections = NoConnections
    /\ lastEmit = NoEmit

CreepMovesR(c, tile) ==
    /\ creepPos[c] # tile
    /\ \A d \in Creeps : creepPos[d] # tile
    /\ tile \in TilesR(c)
    /\ creepPos' = [creepPos EXCEPT ![c] = tile]
    /\ visibleRooms' = visibleRooms \cup {tile.roomName}
    /\ WorldStep

VisionChangesR(r) ==
    /\ RoomOwner(r) # "me"
    /\ visibleRooms' = IF r \in visibleRooms THEN visibleRooms \ {r}
                       ELSE visibleRooms \cup {r}
    /\ \A c \in Creeps : creepPos[c].roomName \in visibleRooms'
    /\ UNCHANGED creepPos
    /\ WorldStep

NextR ==
    \/ Tick
    \/ \E data \in SubmitData : Submit(data)
    \/ \E c \in Creeps, tile \in OpenTiles : CreepMovesR(c, tile)
    \/ \E r \in AllRooms : VisionChangesR(r)

SpecResolve == InitR /\ [][NextR]_vars

----------------------------------------------------------------------------
(* The restart scenario: run() stores the planner tables in Memory, creeps
   die and main.ts cleans their memory, and the script restarts (a global
   reset): a fresh planner is constructed from what Memory holds *)

\* the constructor on the Memory mem: the fields start empty,
\* initializeSourceDatabase takes the stored source database and the stored
\* assignments, and scans
Restored_ForgetsAssignments(scanned, mem) ==
    [db |-> scanned.db, keys |-> scanned.keys, reqs |-> <<>>,
     asg |-> [ c \in Creeps |-> NoSource ],
     adj |-> CacheRooms(getGlobalMemory(mem, "adjacentRooms"), MyVisibleRooms)]

Restored(scanned, mem) ==
    [db |-> scanned.db, keys |-> scanned.keys, reqs |-> <<>>,
     asg |-> getGlobalMemory(mem, "assignments"),
     adj |-> CacheRooms(getGlobalMemory(mem, "adjacentRooms"), MyVisibleRooms)]
initializeSourceDatabase(mem) ==
    Restored(Constructed(getGlobalMemory(mem, "sources")), mem)

\* nothing stored: the tables an absent entry of Memory leaves at their
\* initial value
SavedNothing ==
    [db |-> NothingSaved.db, keys |-> NothingSaved.keys,
     asg |-> [ c \in Creeps |-> NoSource ]]

IsFresh(fresh) ==
    /\ sourceDatabase = fresh.db
    /\ sourceKeys = fresh.keys
    /\ harvestRequests = fresh.reqs
    /\ assignments = fresh.asg

InitP ==
    /\ time = StartTime
    /\ creepPos = [ c \in Creeps |-> IF c = "c1" THEN Pos(9, 10, HomeRoom)
                                     ELSE Pos(40, 40, HomeRoom) ]
    /\ visibleRooms = {HomeRoom}
    /\ \E saved \in {SavedNothing, SavedBusy} :
          /\ Memory = StoredMemory(saved, saved.asg)
          /\ IsFresh(initializeSourceDatabase(StoredMemory(saved, saved.asg)))
    /\ lastOp = Op("constructor", NoCreep)
    /\ emitted = <<>>
    /\ passOrder = <<>>
    /\ scouts = scanAdjacentRoomsSignals
    /\ adjacentRoomsCache =
          CacheRooms(getGlobalMemory(Memory, "adjacentRooms"), MyVisibleRooms)
    /\ connections = NoConnections
    /\ lastEmit = NoEmit

TickP == TickUntil(MaxTimeP)

\* the creeps ask for a source of my room
SubmitDataP ==
    { data \in [creepName : Creeps, roomName : {HomeRoom}, priority : {DEFAULT_PRIORITY},
                allowCrossRoom : BOOLEAN] :
        /\ Alive(data.creepName)
        /\ data.allowCrossRoom = AllowsCrossRoom(data.creepName) }

BecomesFresh(fresh) ==
    /\ sourceDatabase' = fresh.db
    /\ sourceKeys' = fresh.keys
    /\ harvestRequests' = fresh.reqs
    /\ assignments' = fresh.asg
    /\ adjacentRoomsCache' = fresh.adj

\* the script restarts: the heap is lost and the module constructs the
\* planner anew from Memory
GlobalReset ==
    /\ BecomesFresh(initializeSourceDatabase(Memory))
    /\ lastOp' = Op("constructor", NoCreep)
    /\ emitted' = <<>>
    /\ passOrder' = <<>>
    /\ scouts' = scanAdjacentRoomsSignals
    /\ UNCHANGED <<world, Memory, bus>>

NextP ==
    \/ TickP
    \/ \E data \in SubmitDataP : Submit(data)
    \/ \E c \in Creeps : CreepDies(c)
    \/ \E c \in Creeps : CreepDeath(c)
    \/ \E r \in Rooms : VisionChanges(r)
    \/ GlobalReset

SpecPersist == InitP /\ [][NextP]_vars

\* the same scenario without new requests and with my room alone in view:
\* creeps die, their death is noticed, the script restarts
\* and the ticks never end. No request is queued in this scenario, so run()
\* reads the clock only in Game.time % interval, and every interval divides
\* ADJACENT_SCAN_INTERVAL: the clock is kept modulo that interval
NextClock(t) ==
    IF t + 1 = StartTime + ADJACENT_SCAN_INTERVAL THEN StartTime ELSE t + 1

TickV == TickAt(NextClock(time))

NextV ==
    \/ TickV
    \/ \E c \in Creeps : CreepDies(c)
    \/ \E c \in Creeps : CreepDeath(c)
    \/ GlobalReset

\* a step of TickV, told by the clock alone: run() is total, so TickV is
\* always enabled, and no other action of NextV changes the time
ClockAdvances == time' = NextClock(time)

\* the game runs every tick, and main.ts runs cleanupDeadCreeps in every tick
SpecPersistFair ==
    /\ InitP /\ [][NextV]_vars
    /\ WF_time(ClockAdvances)
    /\ \A c \in Creeps : WF_vars(CreepDeath(c))

----------------------------------------------------------------------------
(* The pipeline scenario: c1 is assigned to the only source of my room and
   stands on its only free tile, c2 asks for a source of my room, and the
   ticks run on past the timeout of a request *)

\* what saveData() stored on the tick whose pass assigned c1: the free count
\* is the one the occupancy update had found before the pass
SavedAssigned ==
    [db |-> SavedIdle.db, keys |-> SavedIdle.keys, asg |-> SavedBusy.asg]

InitL ==
    /\ time = StartTime
    /\ creepPos = [ c \in Creeps |-> IF c = "c1" THEN Pos(9, 10, HomeRoom)
                                     ELSE Pos(40, 40, HomeRoom) ]
    /\ visibleRooms = {HomeRoom}
    /\ \E saved \in {SavedNothing, SavedAssigned, SavedBusy} :
          /\ Memory = StoredMemory(saved, saved.asg)
          /\ IsFresh(initializeSourceDatabase(StoredMemory(saved, saved.asg)))
    /\ lastOp = Op("constructor", NoCreep)
    /\ emitted = <<>>
    /\ passOrder = <<>>
    /\ scouts = scanAdjacentRoomsSignals
    /\ adjacentRoomsCache =
          CacheRooms(getGlobalMemory(Memory, "adjacentRooms"), MyVisibleRooms)
    /\ connections = NoConnections
    /\ lastEmit = NoEmit

SubmitDataL ==
    { data \in SubmitDataP : data.creepName = "c2" }

TickL == TickUntil(MaxTimeL)

NextL ==
    \/ TickL
    \/ \E data \in SubmitDataL : Submit(data)

SpecPipeline == InitL /\ [][NextL]_vars

----------------------------------------------------------------------------
(* The adjacency scenario: scanAdjacentRooms fills adjacentRoomsCache for
   rooms of mine anywhere around the origin of the world map *)

RoomNames ==
    { RoomName(ew, x, ns, y) : ew \in {"E", "W"}, x \in 0..MaxCoord,
                               ns \in {"N", "S"}, y \in 0..MaxCoord }

\* scanAdjacentRooms when the room r is mine and has no entry in the cache
\* (none of its adjacent rooms is in view)
ScanAdjacentOf(r) ==
    /\ r \notin DOMAIN adjacentRoomsCache
    /\ Cardinality(DOMAIN adjacentRoomsCache) < MaxRooms
    /\ adjacentRoomsCache' = CacheRooms(adjacentRoomsCache, {r})
    /\ lastOp' = Op("scanAdjacentRooms", NoCreep)
    /\ emitted' = <<>>
    /\ passOrder' = <<>>
    /\ scouts' = <<>>
    /\ UNCHANGED <<world, sourceDatabase, sourceKeys, harvestRequests, assignments,
                   Memory, bus>>

NextA == \E r \in RoomNames : ScanAdjacentOf(r)

SpecAdjacent == InitT /\ [][NextA]_vars

----------------------------------------------------------------------------
(* The scan scenario: the room east of my room comes into view and goes out
   of view, its source lies next to the edges of the room; the creeps ask
   for sources of my room while the rescans of ticks 100 and 120 run *)

InitS ==
    /\ time = StartTime
    /\ creepPos = [ c \in Creeps |-> IF c = "c1" THEN Pos(9, 10, HomeRoom)
                                     ELSE Pos(40, 40, HomeRoom) ]
    /\ visibleRooms \in { {HomeRoom}, {HomeRoom, EdgeRoom} }
    /\ \E saved \in {SavedNothing, SavedBusy} :
          /\ Memory = StoredMemory(saved, saved.asg)
          /\ IsFresh(initializeSourceDatabase(StoredMemory(saved, saved.asg)))
    /\ lastOp = Op("constructor", NoCreep)
    /\ emitted = <<>>
    /\ passOrder = <<>>
    /\ scouts = scanAdjacentRoomsSignals
    /\ adjacentRoomsCache =
          CacheRooms(getGlobalMemory(Memory, "adjacentRooms"), MyVisibleRooms)
    /\ connections = NoConnections
    /\ lastEmit = NoEmit

TickS == TickUntil(MaxTimeS)

NextScan ==
    \/ TickS
    \/ \E data \in SubmitDataP : Submit(data)
    \/ VisionChanges(EdgeRoom)

SpecScan == InitS /\ [][NextScan]_vars

----------------------------------------------------------------------------
(* The signal manager (src/src/SignalSystem.ts): the connections of one
   signal, creep.energy_full, and its emits. A connection is
   [method, oneShot, priority]; connected numbers the connect calls *)

Handlers == {"onEnergyFull", "normalHandler", "cleanup", "unsubscribe"}
\* the handler that raises an error when it is called
Throws(method) == method = "cleanup"
\* the handler that disconnects itself from the signal when it is called
\* (disconnectSignal(signalName, methodName) of its own method)
Disconnects(method) == method = "unsubscribe"
ConnectPriorities == {0, 1, 2}

\* connections.sort((a, b) => (b.priority || 0) - (a.priority || 0)): a
\* stable sort, the higher priority first
RECURSIVE InsertConnection(_, _)
InsertConnection(sorted, c) ==
    IF sorted = <<>> THEN <<c>>
    ELSE IF c.priority - Head(sorted).priority > 0
         THEN <<c>> \o sorted
         ELSE <<Head(sorted)>> \o InsertConnection(Tail(sorted), c)

RECURSIVE SortConnections(_)
SortConnections(conns) ==
    IF conns = <<>> THEN <<>>
    ELSE InsertConnection(SortConnections(SubSeq(conns, 1, Len(conns) - 1)),
                          conns[Len(conns)])

\* disconnect(signal, target, method) for the one target of the model:
\* without a method (NoMethod) every connection goes; with a method the
\* connections of another method stay, as a new list
NoMethod == "undefined"
disconnect(conns, method) ==
    IF method = NoMethod THEN <<>>
    ELSE SelectSeq(conns, LAMBDA conn : conn.method # method)

connect_NoSort(conns, connection) == Append(conns, connection)

\* connect(signal, target, method, oneShot, priority)
connect(conns, connection) == SortConnections(Append(conns, connection))

emitFrom_NoCatch(connectionsToExecute, i, st) ==
    IF i > Len(connectionsToExecute) THEN st
    ELSE [st EXCEPT !.invoked = Append(@, connectionsToExecute[i]),
                    !.returned = ~Throws(connectionsToExecute[i].method)]

\* the list the manager holds for the signal while a handler runs: a handler
\* that disconnects stores a filtered list, the list the emit read stays
AfterCall(current, connection) ==
    IF Disconnects(connection.method)
    THEN disconnect(current, connection.method)
    ELSE current

\* the loop of emit over the copy of the connections: the call of a handler
\* is inside try; catch logs the error and the loop goes on; a one-shot
\* connection is marked for removal after its call returned
RECURSIVE emitFrom(_, _, _)
emitFrom(connectionsToExecute, i, st) ==
    IF i > Len(connectionsToExecute) THEN st
    ELSE LET connection == connectionsToExecute[i]
             called == [st EXCEPT !.invoked = Append(@, connection),
                                  !.current = AfterCall(@, connection)]
         IN  IF Throws(connection.method)
             THEN emitFrom(connectionsToExecute, i + 1, called)
             ELSE emitFrom(connectionsToExecute, i + 1,
                           [called EXCEPT !.toRemove =
                               IF connection.oneShot THEN @ \cup {connection} ELSE @])

\* emit(signal, data): without connections it returns at once. When one-shot
\* connections are marked, the list the emit read at its start, without
\* them, is stored for the signal; otherwise the stored list is left as the
\* handlers made it
emit(conns) ==
    IF conns = <<>>
    THEN [connections |-> conns, invoked |-> <<>>, returned |-> TRUE]
    ELSE LET done == emitFrom(conns, 1,
                        [invoked |-> <<>>, toRemove |-> {}, returned |-> TRUE,
                         current |-> conns])
         IN  [connections |->
                  IF done.toRemove # {}
                  THEN SelectSeq(conns, LAMBDA c : c \notin done.toRemove)
                  ELSE done.current,
              invoked |-> done.invoked, returned |-> done.returned]

\* the number of the next connect call
NextConnected(conns) ==
    LET numbers == {0} \cup { conns[i].connected : i \in 1..Len(conns) }
    IN  1 + CHOOSE n \in numbers : \A m \in numbers : m <= n

Connect(method, oneShot, priority) ==
    /\ Len(connections) < MaxHandlers
    /\ NextConnected(connections) <= MaxConnects
    /\ connections' = connect(connections,
                          [method |-> method, oneShot |-> oneShot,
                           priority |-> priority,
                           connected |-> NextConnected(connections)])
    /\ lastEmit' = NoEmit
    /\ lastOp' = Op("connect", NoCreep)
    /\ UNCHANGED <<world, planner, emitted, passOrder, scouts, Memory>>

Emit ==
    /\ connections' = emit(connections).connections
    /\ lastEmit' = [invoked |-> emit(connections).invoked,
                    returned |-> emit(connections).returned]
    /\ lastOp' = Op("emit", NoCreep)
    /\ UNCHANGED <<world, planner, emitted, passOrder, scouts, Memory>>

\* a call of disconnect outside an emit; lastOp names the method
Disconnect(method) ==
    /\ connections' = disconnect(connections, method)
    /\ lastEmit' = NoEmit
    /\ lastOp' = Op("disconnect", method)
    /\ UNCHANGED <<world, planner, emitted, passOrder, scouts, Memory>>

NextS ==
    \/ \E method \in Handlers, oneShot \in BOOLEAN, priority \in ConnectPriorities :
          Connect(method, oneShot, priority)
    \/ Emit
    \/ \E method \in Handlers \cup {NoMethod} : Disconnect(method)

SpecSignal == InitT /\ [][NextS]_vars

----------------------------------------------------------------------------
(* Claims about the request queue and the resolver *)

AssignedTo(s) == { c \in Creeps : assignments[c] = s }
Occupied(pos) == pos.occupiedBy # NoCreep
\* how many harvest.source_assigned signals of a sequence name source s
AssignedCount(signals, s) ==
    Cardinality({ i \in 1..Len(signals) : signals[i].sourceId = s })
QueuedFor(reqs, c) == { i \in 1..Len(reqs) : reqs[i].creepName = c }

\* C1: in every reachable state, the number of creeps whose assignment targets
\* a source is at most the number of usable (non-blocked) positions of that
\* source.
C1_NoOverbooking ==
    \A s \in DOMAIN sourceDatabase :
        Cardinality(AssignedTo(s)) <= sourceDatabase[s].totalPositions

\* C2: on a tick without occupancy update and rescan, each assignment the pass
\* creates to a source takes one from that source's freePositions, and a
\* source that had exactly one free position at the start of the pass gets at
\* most one of the requests of the pass.
C2_DecrementPerAssignment ==
    [][ ( /\ lastOp'.op = "run"
          /\ ~Fires(time', OCCUPANCY_INTERVAL)
          /\ ~Fires(time', SCAN_INTERVAL) )
        => \A s \in DOMAIN sourceDatabase :
              /\ sourceDatabase'[s].freePositions =
                    sourceDatabase[s].freePositions - AssignedCount(emitted', s)
              /\ sourceDatabase[s].freePositions = 1 => AssignedCount(emitted', s) <= 1
      ]_vars

\* C3: at the end of every cycle, for every source, the number of positions
\* with a recorded occupant plus freePositions equals totalPositions.
C3_SlotAccounting ==
    lastOp.op = "run" =>
        \A s \in DOMAIN sourceDatabase :
            CountSeq(sourceDatabase[s].positions, Occupied)
                + sourceDatabase[s].freePositions = sourceDatabase[s].totalPositions

\* C4: a pass considers the queued requests in ascending priority value and,
\* among equal priorities, in ascending request time.
C4_PassInPriorityOrder ==
    \A i, j \in 1..Len(passOrder) :
        i < j => \/ passOrder[i].priority < passOrder[j].priority
                 \/ /\ passOrder[i].priority = passOrder[j].priority
                    /\ passOrder[i].requestTime <= passOrder[j].requestTime

\* C5: the request queue holds at most one entry per creep name.
C5_OneRequestPerCreep ==
    \A i, j \in 1..Len(harvestRequests) :
        harvestRequests[i].creepName = harvestRequests[j].creepName => i = j

\* C6: a submit for a creep that has a queued request adds no entry; the
\* entry's priority becomes the submitted priority when that is numerically
\* lower, and is unchanged otherwise.
C6_ResubmitUpdatesInPlace ==
    [][ \A data \in SubmitData :
          ( Submit(data) /\ QueuedFor(harvestRequests, data.creepName) # {} )
          => /\ Len(harvestRequests') = Len(harvestRequests)
             /\ \A i \in QueuedFor(harvestRequests, data.creepName) :
                   harvestRequests'[i].priority =
                       IF data.priority < harvestRequests[i].priority
                       THEN data.priority ELSE harvestRequests[i].priority
      ]_vars

\* C7: a submit for a creep that holds an assignment to a source with
\* freePositions > 0 changes neither the assignments nor the request queue
\* nor the source database.
C7_SubmitWithValidAssignmentIsNoOp ==
    [][ \A data \in SubmitData :
          ( /\ Submit(data)
            /\ assignments[data.creepName] # NoSource
            /\ assignments[data.creepName] \in DOMAIN sourceDatabase
            /\ sourceDatabase[assignments[data.creepName]].freePositions > 0 )
          => UNCHANGED planner
      ]_vars

\* a submit has just been handled for a creep whose assignment is valid
C7_Witness ==
    /\ lastOp.op = "submit"
    /\ assignments[lastOp.creepName] # NoSource
    /\ assignments[lastOp.creepName] \in DOMAIN sourceDatabase
    /\ sourceDatabase[assignments[lastOp.creepName]].freePositions > 0

\* C8: a submit that names a creep which is not in the world leaves the
\* request queue, the assignments and the source database unchanged.
C8_SubmitForMissingCreepIsDropped ==
    [][ \A data \in SubmitData :
          ( Submit(data) /\ ~Alive(data.creepName) ) => UNCHANGED planner
      ]_vars

----------------------------------------------------------------------------
(* Claims about the timeout of requests *)

InQueue(reqs, r) == \E j \in 1..Len(reqs) : reqs[j] = r
AssignedInPass(signals, c) == \E i \in 1..Len(signals) : signals[i].creepName = c

\* C9 as stated: with the 100-tick timeout, a request made at tick t is gone
\* from the queue at the end of tick t + 100, so that no request of age 100
\* or more is queued when a cycle ends.
C9_PurgedAtTick100 ==
    lastOp.op = "run" =>
        \A i \in 1..Len(harvestRequests) :
            time - harvestRequests[i].requestTime < REQUEST_TIMEOUT

\* C9 as amended: a queued request with request time t, whose creep is alive
\* and gets no source in the pass, is still queued at the end of every tick
\* up to t + 100, and is removed at the end of the first tick after t + 100
\* that is a multiple of 10 (one of t + 101 .. t + 110), not before.
C9_PurgedAtFirstSweepAfter100 ==
    [][ lastOp'.op = "run" =>
          \A i \in 1..Len(harvestRequests) :
              LET r == harvestRequests[i]
              IN  ( Alive(r.creepName) /\ ~AssignedInPass(emitted', r.creepName) )
                  => ( InQueue(harvestRequests', r)
                       <=> ~( time' % CLEANUP_INTERVAL = 0
                              /\ time' - r.requestTime > REQUEST_TIMEOUT ) )
      ]_vars

\* a cycle has just removed a request that the pass had still considered: it
\* was older than 100 ticks on a tick that is a multiple of 10
C9_Witness ==
    /\ lastOp.op = "run"
    /\ \E i \in 1..Len(passOrder) :
          /\ time - passOrder[i].requestTime > REQUEST_TIMEOUT
          /\ ~InQueue(harvestRequests, passOrder[i])

\* C10: a request that is never assigned leaves the queue at the first sweep
\* at which its age exceeds the timeout, whatever its creep does: a repeated
\* submit with the same or a less urgent priority leaves the queue as it is
\* (the request time is not refreshed), after a sweep no queued request is
\* older than the timeout, and the sweep gives the creep of a removed request
\* no assignment.
C10_TimeoutRegardlessOfResubmits ==
    [][ /\ \A data \in SubmitDataT :
              ( /\ Submit(data)
                /\ \E i \in 1..Len(harvestRequests) :
                      /\ SameRequest(harvestRequests[i], data)
                      /\ data.priority >= harvestRequests[i].priority )
              => harvestRequests' = harvestRequests
        /\ ( lastOp'.op = "run" /\ time' % CLEANUP_INTERVAL = 0 )
              => /\ \A j \in 1..Len(harvestRequests') :
                       time' - harvestRequests'[j].requestTime <= REQUEST_TIMEOUT
                 /\ \A i \in 1..Len(harvestRequests) :
                       ( /\ ~InQueue(harvestRequests', harvestRequests[i])
                         /\ ~AssignedInPass(emitted', harvestRequests[i].creepName) )
                       => assignments'[harvestRequests[i].creepName]
                             = assignments[harvestRequests[i].creepName]
      ]_vars

\* a creep has just submitted again for a request that has reached the age
\* of the timeout, and the request kept its request time
C10_Witness ==
    /\ lastOp.op = "submit"
    /\ \E i \in 1..Len(harvestRequests) :
          /\ harvestRequests[i].creepName = lastOp.creepName
          /\ time - harvestRequests[i].requestTime >= REQUEST_TIMEOUT

----------------------------------------------------------------------------
(* Claims about the choice of the source. They are stated on the state a
   cycle leaves: sourceDatabase is the database the pass resolved against,
   passOrder the requests it considered, emitted its assignments in order *)

\* the state right after a cycle, in which no request of the pass was old
\* enough for the sweep (a request missing from the queue was then assigned
\* or belonged to a creep that is gone)
AfterPass ==
    /\ lastOp.op = "run"
    /\ ~( time % CLEANUP_INTERVAL = 0
          /\ \E i \in 1..Len(passOrder) : time - passOrder[i].requestTime > REQUEST_TIMEOUT )

\* the requests of the pass that were assigned, in the order of the pass
AssignedRequests ==
    SelectSeq(passOrder, LAMBDA r : Alive(r.creepName) /\ ~InQueue(harvestRequests, r))

\* every assignment of the pass belongs to one assigned request
PassMatches ==
    /\ Len(emitted) = Len(AssignedRequests)
    /\ \A k \in 1..Len(emitted) : emitted[k].creepName = AssignedRequests[k].creepName

Observed(room) == room \in visibleRooms
Accessible(room) == Observed(room) /\ RoomOwner(room) # "other"
FreeOf(s) == sourceDatabase[s].freePositions
RoomOf(s) == sourceDatabase[s].roomName
DistanceTo(r, s) == GetRangeTo(creepPos[r.creepName], SourcePos(s))

\* the nodes of the request's room with a free slot, and those of other rooms
LocalNodes(r) ==
    { s \in DOMAIN sourceDatabase : FreeOf(s) >= 1 /\ RoomOf(s) = r.roomName
                                    /\ Observed(RoomOf(s)) }
RemoteNodes(r) ==
    { s \in DOMAIN sourceDatabase : FreeOf(s) >= 1 /\ RoomOf(s) # r.roomName
                                    /\ Accessible(RoomOf(s)) }

\* C11: locality is a hard partition. A request of the pass whose room has
\* a node with a free slot is assigned in that pass, and to a node of its
\* room, also when it allows other rooms and an accessible node of another
\* room has more free slots or is closer.
C11_LocalFirst ==
    AfterPass =>
        /\ PassMatches
        /\ \A i \in 1..Len(passOrder) :
              ( Alive(passOrder[i].creepName) /\ LocalNodes(passOrder[i]) # {} )
              => ~InQueue(harvestRequests, passOrder[i])
        /\ \A k \in 1..Len(emitted) :
              LocalNodes(AssignedRequests[k]) # {}
              => RoomOf(emitted[k].sourceId) = AssignedRequests[k].roomName

\* a request that allows other rooms got the node of its own room although
\* an accessible node of another room had more free slots
C11_Witness ==
    /\ AfterPass
    /\ \E k \in 1..Len(emitted) :
          /\ AssignedRequests[k].allowCrossRoom
          /\ RoomOf(emitted[k].sourceId) = AssignedRequests[k].roomName
          /\ \E u \in RemoteNodes(AssignedRequests[k]) :
                FreeOf(u) > FreeOf(emitted[k].sourceId)

\* C12: within the partition it chooses from (the nodes of the request's
\* room if one has a free slot, else the nodes of other rooms) the resolver
\* assigns a node with the most free slots and, among those, one at the
\* least range from the creep.
C12_MostFreeThenNearest ==
    AfterPass =>
        \A k \in 1..Len(emitted) :
            LET r == AssignedRequests[k]
                s == emitted[k].sourceId
                part == IF LocalNodes(r) # {} THEN LocalNodes(r) ELSE RemoteNodes(r)
            IN  /\ s \in part
                /\ \A u \in part :
                      /\ FreeOf(u) <= FreeOf(s)
                      /\ FreeOf(u) = FreeOf(s) => DistanceTo(r, s) <= DistanceTo(r, u)

\* the pass chose between two nodes of one partition with equal free slots
\* and took the nearer one, and it passed over a node with fewer free slots
C12_Witness ==
    /\ AfterPass
    /\ \E k \in 1..Len(emitted) :
          LET r == AssignedRequests[k]
              s == emitted[k].sourceId
          IN  \E u \in LocalNodes(r) :
                 /\ s \in LocalNodes(r)
                 /\ FreeOf(u) = FreeOf(s)
                 /\ DistanceTo(r, u) > DistanceTo(r, s)

\* C13: every assignment of a pass targets a node of the request's room, or
\* a node of another room while the request allows other rooms and that
\* room is in view and not owned by a third party.
C13_AssignedNodeIsLocalOrAccessible ==
    AfterPass =>
        /\ PassMatches
        /\ \A k \in 1..Len(emitted) :
              LET r == AssignedRequests[k]
                  s == emitted[k].sourceId
              IN  \/ RoomOf(s) = r.roomName
                  \/ r.allowCrossRoom /\ Accessible(RoomOf(s))

\* a request was sent to another room while the node of the third party's
\* room, in view, had more free slots than the node it got
C13_Witness ==
    /\ AfterPass
    /\ \E k \in 1..Len(emitted) :
          /\ RoomOf(emitted[k].sourceId) # AssignedRequests[k].roomName
          /\ \E u \in DOMAIN sourceDatabase :
                /\ RoomOwner(RoomOf(u)) = "other"
                /\ Observed(RoomOf(u))
                /\ FreeOf(u) > FreeOf(emitted[k].sourceId)

\* C14: a request of the pass whose creep exists, whose room has no node
\* with a free slot, which allows other rooms, and for which an accessible
\* other room has a node with a free slot, is assigned to such a node in
\* that pass.
C14_RemoteWhenNoLocal ==
    AfterPass =>
        /\ \A i \in 1..Len(passOrder) :
              LET r == passOrder[i]
              IN  ( /\ Alive(r.creepName) /\ r.allowCrossRoom
                    /\ LocalNodes(r) = {} /\ RemoteNodes(r) # {} )
                  => ~InQueue(harvestRequests, r)
        /\ \A k \in 1..Len(emitted) :
              LET r == AssignedRequests[k]
              IN  ( r.allowCrossRoom /\ LocalNodes(r) = {} /\ RemoteNodes(r) # {} )
                  => emitted[k].sourceId \in RemoteNodes(r)

\* a request whose room had no free slot went to a node of another room
C14_Witness ==
    /\ AfterPass
    /\ \E k \in 1..Len(emitted) :
          /\ LocalNodes(AssignedRequests[k]) = {}
          /\ AssignedRequests[k].allowCrossRoom
          /\ emitted[k].sourceId \in RemoteNodes(AssignedRequests[k])

\* C15: every assignment is to a node whose recorded free positions were
\* above 0 when the request was resolved: a node for which isSourceFull
\* answers true is never selected.
C15_NeverAssignsFullSource ==
    lastOp.op = "run" =>
        \A k \in 1..Len(emitted) :
            /\ FreeOf(emitted[k].sourceId) > 0
            /\ ~isSourceFull(emitted[k].sourceId)

\* the pass made an assignment while the node of the request's own room,
\* in view, was full
C15_Witness ==
    /\ AfterPass
    /\ \E k \in 1..Len(emitted) :
          \E u \in DOMAIN sourceDatabase :
              /\ isSourceFull(u)
              /\ RoomOf(u) = AssignedRequests[k].roomName
              /\ Observed(RoomOf(u))

----------------------------------------------------------------------------
(* Claims about the removal of assignments and requests *)

RequestsOfOthers(reqs, c) == SelectSeq(reqs, LAMBDA req : req.creepName # c)
\* the creep stands on a slot of a source that the last occupancy update
\* counted as full
StandsOnFullSource(c) ==
    \E s \in DOMAIN sourceDatabase :
        /\ sourceDatabase[s].totalPositions > 0
        /\ sourceDatabase[s].freePositions = 0
        /\ creepPos[c].roomName = sourceDatabase[s].roomName
        /\ \E i \in 1..Len(sourceDatabase[s].positions) :
              /\ ~sourceDatabase[s].positions[i].isBlocked
              /\ sourceDatabase[s].positions[i].x = creepPos[c].x
              /\ sourceDatabase[s].positions[i].y = creepPos[c].y

\* C16: after creep.memory_cleaned for a creep is handled, the creep has no
\* assignment and no entry in the queue, whatever room its entries name, and
\* the assignments and the requests of the other creeps are as before.
C16_DeathClearsCreepOnly ==
    [][ \A c \in Creeps :
          CreepDeath(c) =>
              /\ assignments'[c] = NoSource
              /\ QueuedFor(harvestRequests', c) = {}
              /\ \A d \in Creeps \ {c} : assignments'[d] = assignments[d]
              /\ harvestRequests' = RequestsOfOthers(harvestRequests, c)
              /\ sourceDatabase' = sourceDatabase
      ]_vars

\* the notification for a creep was handled while a source was counted as
\* full and the other creep kept its queued request
C16_Witness ==
    /\ lastOp.op = "death"
    /\ assignments[lastOp.creepName] = NoSource
    /\ \E s \in DOMAIN sourceDatabase : isSourceFull(s)
    /\ \E d \in Creeps \ {lastOp.creepName} : QueuedFor(harvestRequests, d) # {}

\* C17 as stated: an assignment is removed only by the notification of the
\* creep's removal or by a release; no submit, pass, update, rescan or sweep
\* deletes one.
C17_RemovedOnlyByDeathOrRelease ==
    [][ \A c \in Creeps :
          ( assignments[c] # NoSource /\ assignments'[c] = NoSource )
          => ( lastOp'.op \in {"death", "release"} /\ lastOp'.creepName = c )
      ]_vars

\* C17 as amended: an assignment is removed only by the notification of the
\* creep's removal, by a release, or by a submit for that creep while the
\* assigned source is missing from the database or has no free position; no
\* pass, update, rescan or sweep deletes one.
C17_RemovedOnlyByDeathReleaseOrInvalidSubmit ==
    [][ \A c \in Creeps :
          ( assignments[c] # NoSource /\ assignments'[c] = NoSource )
          => \/ lastOp'.op \in {"death", "release"} /\ lastOp'.creepName = c
             \/ /\ lastOp'.op = "submit" /\ lastOp'.creepName = c
                /\ ~( assignments[c] \in DOMAIN sourceDatabase
                      /\ sourceDatabase[assignments[c]].freePositions > 0 )
      ]_vars

\* a submit has just left its creep without assignment and with a queued
\* request, while the creep stands on a slot of a source counted as full
C17_Witness ==
    /\ lastOp.op = "submit"
    /\ assignments[lastOp.creepName] = NoSource
    /\ StandsOnFullSource(lastOp.creepName)
    /\ \E i \in 1..Len(harvestRequests) :
          /\ harvestRequests[i].creepName = lastOp.creepName
          /\ harvestRequests[i].requestTime = time

\* C18: assignments are not reassigned in place: from one state to the next
\* the source recorded for a creep never changes from one source to another.
C18_NoReassignmentInPlace ==
    [][ \A c \in Creeps :
          ( assignments[c] # NoSource /\ assignments'[c] # NoSource )
          => assignments'[c] = assignments[c]
      ]_vars

\* C19: releaseCreepAssignment(c) removes the assignment of c, so that
\* getAssignedSource(c) answers none right after, changes nothing when c has
\* no assignment, and leaves the queue, the sources and the assignments of
\* the other creeps as they were.
C19_ReleaseClearsOneAssignment ==
    [][ \A c \in Creeps :
          Release(c) =>
              /\ getAssignedSource(c)' = NoSource
              /\ \A d \in Creeps \ {c} : assignments'[d] = assignments[d]
              /\ harvestRequests' = harvestRequests
              /\ sourceDatabase' = sourceDatabase
              /\ assignments[c] = NoSource => UNCHANGED planner
      ]_vars

\* a release left without assignment a creep that stands on a slot of a
\* source counted as full, while the other creep keeps its assignment
C19_Witness ==
    /\ lastOp.op = "release"
    /\ assignments[lastOp.creepName] = NoSource
    /\ StandsOnFullSource(lastOp.creepName)
    /\ \E d \in Creeps \ {lastOp.creepName} : assignments[d] # NoSource

----------------------------------------------------------------------------
(* Claims about the cycle, the occupancy update and persistence *)

\* the assigned creeps that the occupancy update finds on a slot of source s
OnSlotOf(s) ==
    { c \in AssignedTo(s) : \E i \in 1..Len(sourceDatabase[s].positions) :
                                OccupiesSlot(c, sourceDatabase[s], i) }
NoOccupantMarks(sd) ==
    \A i \in 1..Len(sd.positions) : sd.positions[i].occupiedBy = NoCreep

\* C21: the steps of a cycle run in the order occupancy update, rescan,
\* rediscovery, request processing, sweep, persist, and the request
\* processing runs in every cycle. Stated by what each order leaves behind:
\* on a rescan tick the free count of a source with assigned creeps is the
\* one the update counted and the rescan after it has wiped the occupant
\* marks; every assignment of the pass goes to a source that the update of
\* the same cycle left with a free slot; every queued request is considered
\* by the pass, also the one the sweep of the same cycle removes; and what
\* is persisted is the tables as the pass left them.
C21_StepsInOrder ==
    [][ lastOp'.op = "run" =>
          /\ \A i \in 1..Len(harvestRequests) :
                \E j \in 1..Len(passOrder') : passOrder'[j] = harvestRequests[i]
          /\ Fires(time', OCCUPANCY_INTERVAL) =>
                /\ \A s \in DOMAIN sourceDatabase :
                      AssignedTo(s) # {} =>
                          sourceDatabase'[s].freePositions =
                              sourceDatabase'[s].totalPositions - Cardinality(OnSlotOf(s))
                /\ \A k \in 1..Len(emitted') :
                      sourceDatabase'[emitted'[k].sourceId].freePositions > 0
          /\ Fires(time', SCAN_INTERVAL) =>
                \A s \in DOMAIN sourceDatabase' :
                    sourceDatabase'[s].roomName \in visibleRooms
                        => NoOccupantMarks(sourceDatabase'[s])
          /\ Fires(time', SAVE_INTERVAL) =>
                /\ Memory'.sources = [db |-> sourceDatabase', keys |-> sourceKeys']
                /\ Memory'.assignments = assignments'
      ]_vars

\* a cycle in which every step fired has just removed a request that its
\* pass had still considered, with a creep standing on a slot of its source
C21_Witness ==
    /\ lastOp.op = "run"
    /\ Fires(time, ADJACENT_SCAN_INTERVAL)
    /\ \E s \in DOMAIN sourceDatabase : OnSlotOf(s) # {}
    /\ \E i \in 1..Len(passOrder) :
          /\ time - passOrder[i].requestTime > REQUEST_TIMEOUT
          /\ ~InQueue(harvestRequests, passOrder[i])
\* C22: right after an occupancy update, every source that had no assigned
\* creep has as many free slots as usable slots and no slot with a recorded
\* occupant, whatever the assignments of the other sources.
C22_UnassignedSourcesAreFree ==
    [][ ( lastOp'.op = "run" /\ Fires(time', OCCUPANCY_INTERVAL) ) =>
          \A s \in DOMAIN sourceDatabase :
              AssignedTo(s) = {} =>
                  /\ sourceDatabase'[s].freePositions = sourceDatabase'[s].totalPositions
                  /\ NoOccupantMarks(sourceDatabase'[s])
      ]_vars
\* the script restarts right after a cycle that persisted the tables
RestoreAfterPersist ==
    /\ lastOp.op = "run"
    /\ Fires(time, SAVE_INTERVAL)
    /\ lastOp'.op = "constructor"

----------------------------------------------------------------------------
(* Claims about the adjacent rooms, the pass and its signals *)

\* the rooms next to a room of mine, in one of the four directions
NeighboursOfMine ==
    { getAdjacentRoomNames(r)[i] :
        r \in { m \in visibleRooms : RoomOwner(m) = "me" },
        i \in 1..Len(Directions) }

\* C24: when the scan of the adjacent rooms has run, every room next to a
\* room of mine that is not in view counts as not accessible, and a
\* scout.need_room_vision signal for it was emitted (no scout creep is on its
\* way in the model).
C24_UnseenNeighbourGetsScout ==
    ( lastOp.op = "run" /\ Fires(time, ADJACENT_SCAN_INTERVAL) ) =>
        \A a \in NeighboursOfMine :
            a \notin visibleRooms =>
                /\ ~isRoomAccessible(a)
                /\ \E k \in 1..Len(scouts) : scouts[k].targetRoomName = a

\* the queue in another order
Reordered(reqs) ==
    { [ i \in 1..Len(reqs) |-> reqs[f[i]] ] :
        f \in { g \in [1..Len(reqs) -> 1..Len(reqs)] :
                  \A i, j \in 1..Len(reqs) : i # j => g[i] # g[j] } }
\* what a pass leaves: the assignments and the requests still queued
Outcome(p) == [asg |-> p.asg, remaining |-> { p.reqs[i] : i \in 1..Len(p.reqs) }]
PassOutcome(reqs) ==
    Outcome(processHarvestRequests(
                [reqs |-> reqs, asg |-> assignments, db |-> sourceDatabase,
                 emitted |-> <<>>, order |-> <<>>], sourceKeys))

\* C26: the pass is deterministic in the contents of the queue: from the
\* same requests, source database and creep positions it leaves the same
\* assignments and the same remaining requests, in whatever order the
\* requests were queued.
C26_PassIsDeterministic ==
    \A reqs \in Reordered(harvestRequests) :
        PassOutcome(reqs) = PassOutcome(harvestRequests)

\* the signals of a sequence that name creep c, and the requests that left
\* the queue in the step
SignalsFor(signals, c) == { k \in 1..Len(signals) : signals[k].creepName = c }
RemovedRequests(c) ==
    { r \in { harvestRequests[i] : i \in 1..Len(harvestRequests) } :
        r.creepName = c /\ ~InQueue(harvestRequests', r) }
NoneOldEnough(reqs, t) ==
    ~( Fires(t, CLEANUP_INTERVAL)
       /\ \E i \in 1..Len(reqs) : t - reqs[i].requestTime > REQUEST_TIMEOUT )

\* C27: every assignment the planner makes removes the request it satisfies
\* and emits one harvest.source_assigned signal with the creep, the source
\* and the room of that source: in a cycle, a live creep has as many signals
\* as requests that left the queue (no request being old enough for the
\* sweep), its assignment changes only with a signal and is then the source
\* of its last signal; a step of another handler emits no signal.
C27_OneSignalPerAssignment ==
    [][ /\ lastOp'.op # "run" => emitted' = <<>>
        /\ lastOp'.op = "run" =>
              /\ \A k \in 1..Len(emitted') :
                    /\ Alive(emitted'[k].creepName)
                    /\ emitted'[k].sourceId \in DOMAIN sourceDatabase'
                    /\ emitted'[k].roomName = sourceDatabase'[emitted'[k].sourceId].roomName
              /\ \A c \in Creeps :
                    /\ ( Alive(c) /\ NoneOldEnough(harvestRequests, time') ) =>
                          Cardinality(SignalsFor(emitted', c)) = Cardinality(RemovedRequests(c))
                    /\ SignalsFor(emitted', c) = {} => assignments'[c] = assignments[c]
                    /\ SignalsFor(emitted', c) # {} =>
                          \E k \in SignalsFor(emitted', c) :
                              /\ \A j \in SignalsFor(emitted', c) : j <= k
                              /\ assignments'[c] = emitted'[k].sourceId
      ]_vars

\* a cycle has just assigned two creeps, one of them to a source of another
\* room than the one its request named
C27_Witness ==
    /\ lastOp.op = "run"
    /\ Len(emitted) = 2
    /\ \E k \in 1..Len(emitted) :
          \E i \in 1..Len(passOrder) :
              /\ passOrder[i].creepName = emitted[k].creepName
              /\ passOrder[i].roomName # emitted[k].roomName
----------------------------------------------------------------------------
(* Claims about the signal manager *)

\* C29: an error raised in a handler does not abort an emit: every handler
\* connected to the signal when the emit starts is invoked in that emit,
\* the ones after a handler that throws included, and emit returns normally.
C29_EmitSurvivesThrowingHandler ==
    [][ lastOp'.op = "emit" =>
            /\ lastEmit'.returned
            /\ lastEmit'.invoked = connections
      ]_vars

\* an emit has called a handler after the one that throws
C29_Witness ==
    /\ lastOp.op = "emit"
    /\ \E i, j \in 1..Len(lastEmit.invoked) :
          /\ i < j
          /\ Throws(lastEmit.invoked[i].method)
          /\ ~Throws(lastEmit.invoked[j].method)

----------------------------------------------------------------------------
(* Claims about the requests a pass cannot serve, the geometry of the rooms
   and of the slots, and the occupants *)

\* the planner state on which the pass of the cycle at Game.time t works:
\* the steps of run() before processHarvestRequests have been taken
BeforePass(t) ==
    runAdjacent(runScan(runOccupancy(
        [db |-> sourceDatabase, keys |-> sourceKeys, reqs |-> harvestRequests,
         asg |-> assignments, adj |-> adjacentRoomsCache, emitted |-> <<>>,
         order |-> <<>>, scouts |-> <<>>, mem |-> Memory], t), t), t)

\* the pass finds no candidate for the request of a live creep
Unmatched(st, request) ==
    /\ Alive(request.creepName)
    /\ assignSourceToCreep(st.db, st.keys, request) = NoSource

\* what the pass on the state before leaves for the requests without a
\* candidate: t is the time of the cycle, reqs, asg, db and signals are the
\* queue, the assignments, the source database and the signals after it
LeavesUnmatchedAlone(before, t, reqs, asg, db, signals) ==
    /\ db = before.db
    /\ \A i \in 1..Len(before.reqs) :
          Unmatched(before, before.reqs[i]) =>
              /\ InQueue(reqs, before.reqs[i])
                    \/ ( Fires(t, CLEANUP_INTERVAL) /\ IsTimeout(before.reqs[i], t) )
              /\ ( \A j \in 1..Len(before.reqs) :
                      before.reqs[j].creepName = before.reqs[i].creepName
                          => Unmatched(before, before.reqs[j]) )
                    => /\ asg[before.reqs[i].creepName] = before.asg[before.reqs[i].creepName]
                       /\ ~AssignedInPass(signals, before.reqs[i].creepName)

\* C31: a request of a live creep for which the pass finds no candidate
\* stays in the queue with all its fields (until the sweep of a later step
\* finds it too old), the creep gets no assignment and no signal, and the
\* pass changes no record of the source database.
C31_UnmatchedRequestStaysQueued ==
    [][ lastOp'.op = "run" =>
            LeavesUnmatchedAlone(BeforePass(time'), time', harvestRequests',
                                 assignments', sourceDatabase', emitted')
      ]_vars

\* a cycle has just left the request of a live creep queued, for the second
\* time at least, and has assigned nothing
C31_Witness ==
    /\ lastOp.op = "run"
    /\ emitted = <<>>
    /\ \E i \in 1..Len(passOrder) :
          /\ Alive(passOrder[i].creepName)
          /\ InQueue(harvestRequests, passOrder[i])
          /\ time - passOrder[i].requestTime >= 2
\* the place of a room on the world map: x grows to the east, y to the
\* south, E0 lies next to W0 and S0 next to N0
GridX(r) == IF r.ew = "E" THEN r.x ELSE -(r.x + 1)
GridY(r) == IF r.ns = "S" THEN r.y ELSE -(r.y + 1)
IsRoomName(r) ==
    /\ r.ew \in {"E", "W"} /\ r.ns \in {"N", "S"}
    /\ r.x >= 0 /\ r.y >= 0
LiesAt(r, gx, gy) == IsRoomName(r) /\ GridX(r) = gx /\ GridY(r) = gy
NamedIn(names, r) == \E i \in 1..Len(names) : names[i] = r

\* C33: for a room name [EW]x[NS]y the adjacent rooms are the four rooms
\* one step north, south, west and east of it on the world map, distinct
\* from the room and from each other, and the relation is symmetric.
C33_FourNeighboursSymmetric ==
    /\ \A r \in DOMAIN adjacentRoomsCache :
          /\ Len(adjacentRoomsCache[r]) = 4
          /\ LiesAt(adjacentRoomsCache[r][1], GridX(r), GridY(r) - 1)
          /\ LiesAt(adjacentRoomsCache[r][2], GridX(r), GridY(r) + 1)
          /\ LiesAt(adjacentRoomsCache[r][3], GridX(r) - 1, GridY(r))
          /\ LiesAt(adjacentRoomsCache[r][4], GridX(r) + 1, GridY(r))
          /\ ~NamedIn(adjacentRoomsCache[r], r)
          /\ \A i, j \in 1..4 :
                i # j => adjacentRoomsCache[r][i] # adjacentRoomsCache[r][j]
    /\ \A a, b \in DOMAIN adjacentRoomsCache :
          NamedIn(adjacentRoomsCache[a], b) <=> NamedIn(adjacentRoomsCache[b], a)

\* the cache holds a room of the eastern and a room of the southern
\* hemisphere together with their adjacent rooms across the borders
C33_Witness ==
    \E a, b \in DOMAIN adjacentRoomsCache :
        /\ a.ew = "E" /\ b.ew = "W" /\ a.ns = "S" /\ b.ns = "S"
        /\ adjacentRoomsCache[a][3] = b
        /\ adjacentRoomsCache[a][1].ns = "N"

\* the tiles around source s that lie in its room
NeighbourTiles(s) ==
    { t \in ((SourcePos(s).x - 1)..(SourcePos(s).x + 1))
             \X ((SourcePos(s).y - 1)..(SourcePos(s).y + 1)) :
        /\ t # <<SourcePos(s).x, SourcePos(s).y>>
        /\ t[1] \in 0..ROOM_MAX /\ t[2] \in 0..ROOM_MAX }

\* the record sd is what a scan of source s leaves
ScannedRight(sd, s) ==
    /\ sd.sourceId = s
    /\ sd.roomName = SourcePos(s).roomName
    /\ Len(sd.positions) = Cardinality(NeighbourTiles(s))
    /\ { <<sd.positions[i].x, sd.positions[i].y>> : i \in 1..Len(sd.positions) }
          = NeighbourTiles(s)
    /\ \A i \in 1..Len(sd.positions) :
          /\ sd.positions[i].isBlocked
                <=> IsWall(sd.positions[i].x, sd.positions[i].y, sd.roomName)
          /\ sd.positions[i].occupiedBy = NoCreep
    /\ sd.totalPositions
          = Cardinality({ i \in 1..Len(sd.positions) : ~sd.positions[i].isBlocked })

\* the scan step of run() at Game.time t on the planner state st leaves the
\* requests and the assignments as they are
ScanKeepsRequests(st, t) ==
    /\ runScan(st, t).reqs = st.reqs
    /\ runScan(st, t).asg = st.asg

\* C34: a scan of a source replaces its slots by exactly the tiles among
\* its 8 neighbours that lie within 0..49 on both axes, marks a slot blocked
\* exactly when the tile is a wall, sets totalPositions to the number of
\* slots that are not blocked, keeps the id, the room and the place of the
\* source in the database, and changes no request and no assignment.
C34_ScanReplacesSlots ==
    [][ ( lastOp'.op = "run" /\ Fires(time', SCAN_INTERVAL) ) =>
            /\ \A s \in SourcesIn(visibleRooms) :
                  /\ s \in DOMAIN sourceDatabase'
                  /\ ScannedRight(sourceDatabase'[s], s)
            /\ SubSeq(sourceKeys', 1, Len(sourceKeys)) = sourceKeys
            /\ ScanKeepsRequests(
                  runOccupancy([db |-> sourceDatabase, keys |-> sourceKeys,
                                reqs |-> harvestRequests, asg |-> assignments,
                                adj |-> adjacentRoomsCache, emitted |-> <<>>,
                                order |-> <<>>, scouts |-> <<>>, mem |-> Memory],
                               time'), time')
      ]_vars

\* a rescan has just gone over the source at the edge, which has a slot on
\* the edge of the room, while a creep holds an assignment
C34_Witness ==
    /\ lastOp.op = "run"
    /\ Fires(time, SCAN_INTERVAL)
    /\ "s5" \in DOMAIN sourceDatabase
    /\ EdgeRoom \in visibleRooms
    /\ \E i \in 1..Len(sourceDatabase["s5"].positions) :
          /\ sourceDatabase["s5"].positions[i].x = 0
          /\ ~sourceDatabase["s5"].positions[i].isBlocked
    /\ \E c \in Creeps : assignments[c] # NoSource

\* the sources the occupancy update goes over when some creep is assigned
ActiveSources == { assignments[c] : c \in { d \in Creeps : assignments[d] # NoSource } }
\* creep c stands on the tile of the slot
StandsOn(c, sd, pos) ==
    /\ Alive(c)
    /\ creepPos[c].roomName = sd.roomName
    /\ creepPos[c].x = pos.x /\ creepPos[c].y = pos.y

\* C35: the occupancy update records a creep as occupant only of a slot
\* that is not blocked, belongs to the source the creep is assigned to and
\* lies at the creep's exact position; a blocked slot has no occupant, and a
\* creep standing on a slot of a source it is not assigned to is not
\* recorded on that slot.
C35_OccupantIsAssignedAndOnSlot ==
    [][ ( lastOp'.op = "run" /\ Fires(time', OCCUPANCY_INTERVAL) ) =>
            /\ \A s \in DOMAIN sourceDatabase' :
                  \A i \in 1..Len(sourceDatabase'[s].positions) :
                      sourceDatabase'[s].positions[i].isBlocked
                          => sourceDatabase'[s].positions[i].occupiedBy = NoCreep
            /\ \A s \in ActiveSources \cap DOMAIN sourceDatabase' :
                  \A i \in 1..Len(sourceDatabase'[s].positions) :
                      \A c \in Creeps :
                          sourceDatabase'[s].positions[i].occupiedBy = c =>
                              /\ assignments[c] = s
                              /\ StandsOn(c, sourceDatabase'[s],
                                          sourceDatabase'[s].positions[i])
      ]_vars

\* an occupancy update has just gone over a source on whose slot a creep
\* stands that is not assigned to it, and has recorded no occupant there
C35_Witness ==
    /\ lastOp.op = "run"
    /\ Fires(time, OCCUPANCY_INTERVAL)
    /\ ~Fires(time, SCAN_INTERVAL)
    /\ emitted = <<>>
    /\ \E s \in DOMAIN sourceDatabase, c \in Creeps :
          /\ \E d \in Creeps : d # c /\ assignments[d] = s
          /\ assignments[c] # s
          /\ \E i \in 1..Len(sourceDatabase[s].positions) :
                /\ StandsOn(c, sourceDatabase[s], sourceDatabase[s].positions[i])
                /\ sourceDatabase[s].positions[i].occupiedBy = NoCreep

\* C36: at the end of every cycle no creep has both an assignment and a
\* queued request, and the pass gives no second assignment to a creep that
\* holds one: a creep gets at most one assignment in a cycle, and none when
\* it held an assignment before the pass.
C36_NoRequestNextToAssignment ==
    [][ lastOp'.op = "run" =>
            \A c \in Creeps :
                /\ ~( assignments'[c] # NoSource
                      /\ \E i \in 1..Len(harvestRequests') :
                            harvestRequests'[i].creepName = c )
                /\ Cardinality(SignalsFor(emitted', c)) <= 1
                /\ assignments[c] # NoSource => SignalsFor(emitted', c) = {}
      ]_vars

\* C37: right after an occupancy update, every occupant recorded on a slot
\* of a source is a creep whose assignment targets that source; so no creep
\* is recorded on slots of two sources, and a released or removed creep is
\* recorded nowhere.
C37_OccupantsAreAssigned ==
    [][ ( lastOp'.op = "run" /\ Fires(time', OCCUPANCY_INTERVAL) ) =>
            \A s \in DOMAIN sourceDatabase' :
                \A i \in 1..Len(sourceDatabase'[s].positions) :
                    \A c \in Creeps :
                        sourceDatabase'[s].positions[i].occupiedBy = c
                            => assignments[c] = s
      ]_vars

\* C38: a submit with an explicit numeric priority that queues a new request
\* queues it with the submitted priority, 0 included.
C38_ExplicitPriorityIsKept ==
    [][ \A data \in SubmitData :
          ( Submit(data) /\ Len(harvestRequests') = Len(harvestRequests) + 1 )
          => harvestRequests'[Len(harvestRequests')].priority = data.priority
      ]_vars

\* C39: a one-shot connection is invoked at most once: a one-shot connection
\* that an emit has invoked is not invoked by the emit that follows it.
C39_OneShotInvokedOnce ==
    [][ ( lastOp.op = "emit" /\ lastOp'.op = "emit" ) =>
            \A i \in 1..Len(lastEmit.invoked) :
                \A j \in 1..Len(lastEmit'.invoked) :
                    lastEmit.invoked[i] = lastEmit'.invoked[j]
                        => ~lastEmit.invoked[i].oneShot
      ]_vars

\* C40: a disconnected method is not invoked by the next emit of the signal,
\* whether disconnect was called outside an emit or by a handler during the
\* previous emit.
C40_DisconnectedIsNotInvoked ==
    [][ lastOp'.op = "emit" =>
            \A j \in 1..Len(lastEmit'.invoked) :
                /\ lastOp.op = "disconnect"
                        => /\ lastOp.creepName # NoMethod
                           /\ lastEmit'.invoked[j].method # lastOp.creepName
                /\ ( /\ lastOp.op = "emit"
                     /\ \E i \in 1..Len(lastEmit.invoked) :
                            /\ Disconnects(lastEmit.invoked[i].method)
                            /\ lastEmit.invoked[i].method = lastEmit'.invoked[j].method )
                        => FALSE
      ]_vars

\* C32: a pass removes every queued request of a creep that no longer
\* exists, and gives no assignment and no signal to a creep that does not
\* exist at the time of the pass.
C32_PassDropsRequestsOfMissingCreeps ==
    [][ lastOp'.op = "run" =>
            /\ \A i \in 1..Len(harvestRequests) :
                  ~Alive(harvestRequests[i].creepName) =>
                      ~InQueue(harvestRequests', harvestRequests[i])
            /\ \A j \in 1..Len(harvestRequests') : Alive(harvestRequests'[j].creepName)
            /\ \A c \in Creeps :
                  ~Alive(c) => /\ assignments'[c] = assignments[c]
                               /\ ~AssignedInPass(emitted', c)
      ]_vars

\* a cycle has just removed the request of a creep that is gone while the
\* creep holds no assignment
C32_Witness ==
    /\ lastOp.op = "run"
    /\ \E i \in 1..Len(passOrder) :
          /\ ~Alive(passOrder[i].creepName)
          /\ ~InQueue(harvestRequests, passOrder[i])
          /\ assignments[passOrder[i].creepName] = NoSource
====
